---------------------------- MODULE Spec2Model ----------------------------
(***************************************************************************)
(* Model of the streaming fragment parser of html-fragments-demo           *)
(* (src/client/editable-tweet.ts, the dom.ts part of the file):            *)
(*   - convertSubscribableToIterator, the push-to-pull adapter;            *)
(*   - parseText over TextDecoder, the byte-to-text decoder;               *)
(*   - parseAndObserveTopLevelNodeAdditions / streamingParseTopLevelNodes, *)
(*     the node boundary detector, with dropWhitespaceNodes;               *)
(*   - Fragment.cloneContent with its two fixups, and preloadScripts;      *)
(*   - parseDomFragment and the request paths that call it or              *)
(*     streamDomFragment (em-bed.ts, routing/routing.ts, the tweet page).  *)
(* Each subsystem has a specification of its own over the shared state.    *)
(***************************************************************************)
EXTENDS Integers, Sequences, FiniteSets, TLC

VARIABLES
    \* convertSubscribableToIterator
    pendingResolve,   \* index in promises of the stored resolver, 0 = undefined
    resultQueue,      \* results emitted and not yet polled
    promises,         \* the promise of every next() call, in call order
    emitted,          \* history: every result passed to emit, in order
    cancelCalls,      \* how often the subscribable's cancel function ran
    calls,            \* history (adapter specification): the calls made, in order
    \* iterateReader / parseText
    bytesAll,         \* every byte the byte source will deliver
    byteSource,       \* the bytes the source has not delivered yet
    readerState,      \* "reading" | "done" | "failed" | "closed": iterateReader's loop
    readerLocked,     \* the lock taken by stream.getReader()
    decoder,          \* the TextDecoder's state, kept between decode calls
    textChunks,       \* history: the strings parseText yielded (all of them in the decoder
                      \* specification, the first one in the chunk log specification)
    \* parseAndObserveTopLevelNodeAdditions
    sourceNodes,      \* the top-level nodes of the response markup
    prodState,        \* "idle" | "awaitChunk" | "finished": the async consumer of the text stream
    tokenizer,        \* the parser of doc: tokenizer state and depth of open elements
    bodyNodes,        \* doc.body.childNodes, the Parse Target
    records,          \* MutationRecords not yet handed to the observer callback
    observing,        \* obs.observe(...) is in force (no obs.disconnect() yet)
    canceled,         \* the flag set by the returned Cancel function
    lateWrites,       \* history: doc.write calls made while canceled was set
    \* streamingParseTopLevelNodes under dropWhitespaceNodes, streamingParse
    \* and streamDomFragment
    genState,         \* "start" | "yielded" | "awaiting" | "completed"
    detPos,           \* where the detector is suspended: "loop" (line 169) or "final" (line 172)
    prevNode,         \* prevNode, 0 = undefined
    curNode,          \* node of the running loop iteration, 0 = none
    genQueue,         \* requests of the consumer not yet answered
    received,         \* history: every answer given to the consumer
    detected,         \* history: every node the detector yielded
    \* Fragment, fixupDeclarativeShadowDom, fixupScripts, preloadScripts
    heap,             \* every Node object ever created: heap[id] is the node id
    wrapped,          \* Fragment.node: the id of the wrapped node
    sourceTree,       \* history: the tree under the wrapped node at Fragment.of
    fixedScriptSet,   \* the WeakSet of fixed script elements
    clones,           \* history: the outcome of every cloneContent() call
    edits,            \* how many mutations the callers made on their clones
    headScripts,      \* the nodes appended to document.head, in order
    imports,          \* the specifiers passed to import()
    loadedModules,    \* the specifiers whose module has loaded and executed
    preloadState,     \* "none" | "threw" | "pending" | "resolved": preloadScripts()
    \* dropWhitespaceNodes over an arbitrary node sequence
    filterInput,      \* the nodes the underlying iterator yields, in order
    filterPos,        \* how many of them the for await loop has taken
    filterOutput,     \* history: the nodes dropWhitespaceNodes yielded
    filterState,      \* "running" | "done" | "returned": the generator
    \* the callers of parseDomFragment and streamDomFragment
    request,          \* the request path: which caller made the fetch
    response,         \* the Response the fetch resolved with
    loadState,        \* where the caller is, see the loader section
    loadError,        \* the error the caller's promise was rejected with
    parserCalls,      \* how often DOMParser.parseFromString was called
    inserted,         \* history: the trees the caller put into the document
    \* one em-bed element
    embedSrc,         \* its src attribute, "" = absent
    embedConnected,   \* the element is in the document
    loaded,           \* the private field loaded
    embedRequests,    \* history: the URLs fetch() was called with
    embedTask,        \* "none" | "fetching" | "appended" | "failed": the async function
    embedChildren,    \* how many clones were appended to the element
    embedThrows,      \* history: how many connectedCallback calls threw
    \* one Router element and the module variable currentRoute
    currentRoute,     \* let currentRoute
    contentRoot,      \* the child nodes of the content root
    fragmentCache,    \* this.fragmentCache: route key -> children of the fragment
    navs              \* history: the navigate calls [prev, route, state]

adapterVars == <<pendingResolve, resultQueue, promises, emitted, cancelCalls>>
\* calls is written by the adapter specification alone
historyVars == <<calls>>
decoderVars == <<bytesAll, byteSource, readerState, readerLocked, decoder,
                 textChunks>>

producerVars == <<sourceNodes, prodState, tokenizer, bodyNodes, records,
                  observing, canceled, lateWrites>>
consumerVars == <<genState, detPos, prevNode, curNode, genQueue, received,
                  detected>>
filterVars == <<filterInput, filterPos, filterOutput, filterState>>
streamVars == <<producerVars, consumerVars, filterVars>>

loaderVars == <<request, response, loadState, loadError, parserCalls, inserted>>
fragmentVars == <<heap, wrapped, sourceTree, fixedScriptSet, clones, edits,
                  headScripts, imports, loadedModules, preloadState, loaderVars>>

embedVars == <<embedSrc, embedConnected, loaded, embedRequests, embedTask,
               embedChildren, embedThrows>>
routerVars == <<currentRoute, contentRoot, fragmentCache, navs>>
pageVars == <<embedVars, routerVars>>

vars == <<adapterVars, historyVars, decoderVars, streamVars, fragmentVars, pageVars>>

-----------------------------------------------------------------------------
(* Bounds of the adapter specification *)
MaxEmit == 4
MaxNext == 4
(* Bounds of the decoder specification *)
MaxBytes == 4
(* Bounds of the streaming specification *)
MaxNodes == 3
MaxDone == 1
MaxFairNodes == 2
(* Bounds of the clone specification *)
MaxDepth == 3
MaxClones == 2
MaxEdits == 1
(* Bounds of the preload specification *)
MaxScripts == 3
MaxHeadScripts == 4
(* Bound of the whitespace filter specification *)
MaxFilterLen == 3
(* Bound of the request path specification: top-level nodes after the first *)
MaxTopLevel == 2
(* Bound of the em-bed specification: connectedCallback calls that throw *)
MaxEmbedThrows == 2
(* Bounds of the router specifications: navigate calls, query parameters *)
MaxNavs == 3
MaxParams == 2

-----------------------------------------------------------------------------
\* Application with the arguments evaluated first (call by value, as in the
\* code): the operators below are applied to values, not to expressions.
Call1(F(_), x) == CHOOSE y \in {F(v) : v \in {x}} : TRUE
Call2(F(_, _), x1, x2) == CHOOSE y \in {F(v, w) : v \in {x1}, w \in {x2}} : TRUE
Call3(F(_, _, _), x1, x2, x3) ==
    CHOOSE y \in {F(u, v, w) : u \in {x1}, v \in {x2}, w \in {x3}} : TRUE

-----------------------------------------------------------------------------
(***************************************************************************)
(* parseText: new TextDecoder() and decoder.decode(chunk, {stream: true}). *)
(* The decoder is the UTF-8 decoder of the Encoding standard, which is     *)
(* what TextDecoder runs: it keeps the code point under construction, the  *)
(* bytes seen and needed and the bounds of the next byte between calls.    *)
(***************************************************************************)

\* The bytes of the model: an ASCII byte, the lead byte of a two-byte and of
\* a three-byte character, a continuation byte, and a byte that is never valid.
ByteSet == {65, 195, 226, 169, 255}

ReplacementChar == 65533

DecoderReset == [cp |-> 0, seen |-> 0, needed |-> 0, lower |-> 128, upper |-> 191]

\* One byte through the UTF-8 decoder's handler with no sequence in progress.
DecLead(b) ==
    IF b <= 127 THEN [st |-> DecoderReset, out |-> <<b>>]
    ELSE IF b >= 194 /\ b <= 223
    THEN [st |-> [DecoderReset EXCEPT !.needed = 1, !.cp = b - 192], out |-> <<>>]
    ELSE IF b >= 224 /\ b <= 239
    THEN [st |-> [DecoderReset EXCEPT !.needed = 2, !.cp = b - 224,
                      !.lower = IF b = 224 THEN 160 ELSE 128,
                      !.upper = IF b = 237 THEN 159 ELSE 191],
          out |-> <<>>]
    ELSE IF b >= 240 /\ b <= 244
    THEN [st |-> [DecoderReset EXCEPT !.needed = 3, !.cp = b - 240,
                      !.lower = IF b = 240 THEN 144 ELSE 128,
                      !.upper = IF b = 244 THEN 143 ELSE 191],
          out |-> <<>>]
    ELSE [st |-> DecoderReset, out |-> <<ReplacementChar>>]

\* One byte through the handler: a byte outside the bounds ends the sequence
\* with U+FFFD and is then decoded again as a first byte.
DecByte(st, b) ==
    IF st.needed = 0 THEN DecLead(b)
    ELSE IF b < st.lower \/ b > st.upper
    THEN [st |-> DecLead(b).st, out |-> <<ReplacementChar>> \o DecLead(b).out]
    ELSE LET cp == st.cp * 64 + (b - 128)
         IN IF st.seen + 1 = st.needed
            THEN [st |-> DecoderReset, out |-> <<cp>>]
            ELSE [st |-> [st EXCEPT !.cp = cp, !.seen = st.seen + 1,
                              !.lower = 128, !.upper = 191],
                  out |-> <<>>]

\* acc = [st, out]: the decoder after the bytes handled so far and the code
\* points they gave.
DecStep(acc, b) ==
    LET one == DecByte(acc.st, b)
    IN [st |-> one.st, out |-> acc.out \o one.out]

RECURSIVE DecLoop(_, _)
DecLoop(acc, bytes) ==
    IF bytes = <<>> THEN acc
    ELSE Call2(DecLoop, DecStep(acc, Head(bytes)), Tail(bytes))

DecBytes(st, bytes) == DecLoop([st |-> st, out |-> <<>>], bytes)

\* Mutant: decode(chunk) without {stream: true}: the state is not kept.
decodeStream_stateless(st, chunk) ==
    LET r == DecBytes(DecoderReset, chunk)
    IN [st |-> DecoderReset,
        out |-> IF r.st.needed # 0 THEN Append(r.out, ReplacementChar) ELSE r.out]

\* decoder.decode(chunk, { stream: true }): the bytes of an unfinished
\* character stay in the decoder.
decodeStream(st, chunk) == DecBytes(st, chunk)

\* new TextDecoder().decode(bytes): one call for the whole input, with the
\* end-of-queue step that turns an unfinished character into U+FFFD.
decodeWhole(bytes) ==
    LET r == DecBytes(DecoderReset, bytes)
    IN IF r.st.needed # 0 THEN Append(r.out, ReplacementChar) ELSE r.out

RECURSIVE Flatten(_)
Flatten(ss) == IF ss = <<>> THEN <<>> ELSE Head(ss) \o Flatten(Tail(ss))

RECURSIVE SeqsUpTo(_, _)
SeqsUpTo(S, n) ==
    IF n = 0 THEN {<<>>}
    ELSE LET shorter == SeqsUpTo(S, n - 1)
         IN shorter \cup {Append(s, x) : s \in {t \in shorter : Len(t) = n - 1}, x \in S}

Take(s, k) == SubSeq(s, 1, k)
Drop(s, k) == SubSeq(s, k + 1, Len(s))

DecoderIdle ==
    /\ bytesAll = <<>>
    /\ byteSource = <<>>
    /\ readerState = "reading"
    /\ readerLocked = FALSE
    /\ decoder = DecoderReset
    /\ textChunks = <<>>

\* reader.read() resolves with a chunk of k bytes; iterateReader yields it and
\* parseText yields its decoding.
DRead(k) ==
    /\ readerState = "reading"
    /\ k \in 1..Len(byteSource)
    /\ LET d == decodeStream(decoder, Take(byteSource, k))
       IN /\ decoder' = d.st
          /\ textChunks' = Append(textChunks, d.out)
    /\ byteSource' = Drop(byteSource, k)
    /\ UNCHANGED <<bytesAll, readerState, readerLocked, adapterVars, historyVars, fragmentVars,
                   streamVars, pageVars>>

\* reader.read() resolves with done: the loops of iterateReader and parseText
\* end, the lock is released, nothing more is decoded.
DEnd ==
    /\ readerState = "reading"
    /\ byteSource = <<>>
    /\ readerState' = "done"
    /\ readerLocked' = FALSE
    /\ UNCHANGED <<bytesAll, byteSource, decoder, textChunks, adapterVars,
                   historyVars, fragmentVars, streamVars, pageVars>>

-----------------------------------------------------------------------------
(***************************************************************************)
(* convertSubscribableToIterator                                           *)
(***************************************************************************)

\* IteratorResult<T, void>
IterResult(v) == [value |-> v, done |-> FALSE]
IterDone == [value |-> 0, done |-> TRUE]

\* A promise returned by next(): pending, or resolved with a result.
PendingPromise == [state |-> "pending", result |-> IterDone]
ResolvedPromise(r) == [state |-> "resolved", result |-> r]

\* The adapter's closure state as one value: pr = pendingResolve,
\* q = resultQueue, ps = promises.
AdapterState == [pr |-> pendingResolve, q |-> resultQueue, ps |-> promises]

\* Mutant: emit never looks at the stored resolver and always queues.
emit_alwaysQueues(a, r) == [a EXCEPT !.q = Append(a.q, r)]

\* Mutant: a result emitted while nobody waits is put in front of the queue.
emit_front(a, r) ==
    IF a.pr # 0
    THEN [a EXCEPT !.ps[a.pr] = ResolvedPromise(r), !.pr = 0]
    ELSE [a EXCEPT !.q = <<r>> \o a.q]

\* function emit(value)
emit(a, r) ==
    IF a.pr # 0
    THEN [a EXCEPT !.ps[a.pr] = ResolvedPromise(r), !.pr = 0]
    ELSE [a EXCEPT !.q = Append(a.q, r)]

\* next(): a new promise is returned; it is resolved at once from the queue,
\* or its resolver is stored in pendingResolve, whatever was stored before.
next(a) ==
    IF Len(a.q) > 0
    THEN [a EXCEPT !.ps = Append(a.ps, ResolvedPromise(Head(a.q))),
                   !.q = Tail(a.q)]
    ELSE [a EXCEPT !.ps = Append(a.ps, PendingPromise),
                   !.pr = Len(a.ps) + 1]

SetAdapter(a) ==
    /\ pendingResolve' = a.pr
    /\ resultQueue' = a.q
    /\ promises' = a.ps

\* The subscribable calls emit with a fresh value.
AEmit ==
    /\ Len(emitted) < MaxEmit
    /\ LET r == IterResult(Len(emitted) + 1)
       IN /\ SetAdapter(emit(AdapterState, r))
          /\ emitted' = Append(emitted, r)
    /\ calls' = Append(calls, "emit")
    /\ UNCHANGED <<cancelCalls, decoderVars, streamVars, fragmentVars, pageVars>>

\* The consumer calls next().
ANext ==
    /\ Len(promises) < MaxNext
    /\ SetAdapter(next(AdapterState))
    /\ calls' = Append(calls, "next")
    /\ UNCHANGED <<emitted, cancelCalls, decoderVars, streamVars, fragmentVars, pageVars>>

\* Mutant: return() also empties the result queue.
AReturn_clearsQueue ==
    /\ cancelCalls < 1
    /\ cancelCalls' = cancelCalls + 1
    /\ resultQueue' = <<>>
    /\ calls' = Append(calls, "return")
    /\ UNCHANGED <<pendingResolve, promises, emitted, decoderVars,
                   streamVars, fragmentVars, pageVars>>

\* The consumer calls return(): cancel() runs, a done result is returned.
AReturn ==
    /\ cancelCalls < 1
    /\ cancelCalls' = cancelCalls + 1
    /\ calls' = Append(calls, "return")
    /\ UNCHANGED <<pendingResolve, resultQueue, promises, emitted, decoderVars,
                   streamVars, fragmentVars, pageVars>>

\* The consumer calls throw(): as return(), cancel() runs and a done result is
\* returned; the stored resolver is not touched.
AThrow ==
    /\ cancelCalls < 1
    /\ cancelCalls' = cancelCalls + 1
    /\ calls' = Append(calls, "throw")
    /\ UNCHANGED <<pendingResolve, resultQueue, promises, emitted, decoderVars,
                   streamVars, fragmentVars, pageVars>>

\* The subscribable has emitted its done result.
DoneEmitted == \E i \in 1..Len(emitted) : emitted[i].done

\* The subscribable calls emit with a value; as the subscribable of
\* parseAndObserveTopLevelNodeAdditions, it emits no value after its done.
AEmitValue == ~DoneEmitted /\ AEmit

\* The subscribable calls emit({ value: undefined, done: true }), once.
AEmitDone ==
    /\ Len(emitted) < MaxEmit
    /\ ~DoneEmitted
    /\ SetAdapter(emit(AdapterState, IterDone))
    /\ emitted' = Append(emitted, IterDone)
    /\ calls' = Append(calls, "emit")
    /\ UNCHANGED <<cancelCalls, decoderVars, streamVars, fragmentVars, pageVars>>

AdapterIdle ==
    /\ pendingResolve = 0
    /\ resultQueue = <<>>
    /\ promises = <<>>
    /\ emitted = <<>>
    /\ cancelCalls = 0
    /\ calls = <<>>

-----------------------------------------------------------------------------
(***************************************************************************)
(* The response markup and the parser behind doc.write.  Markup is text    *)
(* over six characters; a top-level node is an element <d>...</d> or a run *)
(* of characters outside every element.                                    *)
(***************************************************************************)

LT == 60        \* "<"
GT == 62        \* ">"
SLASH == 47     \* "/"
TAGD == 100     \* "d", the tag name
SPACE == 32     \* " "
TAB == 9        \* "\t"
NEWLINE == 10   \* "\n"
EACUTE == 233   \* U+00E9, two bytes in UTF-8

\* A node is [kind, data]: data holds the characters of a text node, or the
\* content of an element with LT for the start and GT for the end of an
\* element nested in it.
ElemNode(d) == [kind |-> "elem", data |-> d]
TextNode(d) == [kind |-> "text", data |-> d]

NodeKinds ==
    { ElemNode(<<EACUTE>>), ElemNode(<<LT, GT>>),
      TextNode(<<SPACE>>), TextNode(<<SPACE, EACUTE>>) }

\* Two adjacent runs of characters are one text node.
NoAdjacentText(ns) ==
    \A i \in 1..(Len(ns) - 1) : ~(ns[i].kind = "text" /\ ns[i + 1].kind = "text")

Documents == {ns \in SeqsUpTo(NodeKinds, MaxNodes) : NoAdjacentText(ns)}

RECURSIVE InnerMarkup(_)
InnerMarkup(d) ==
    IF d = <<>> THEN <<>>
    ELSE (IF Head(d) = LT THEN <<LT, TAGD, GT>>
          ELSE IF Head(d) = GT THEN <<LT, SLASH, TAGD, GT>>
          ELSE <<Head(d)>>) \o InnerMarkup(Tail(d))

NodeMarkup(n) ==
    IF n.kind = "text" THEN n.data
    ELSE <<LT, TAGD, GT>> \o InnerMarkup(n.data) \o <<LT, SLASH, TAGD, GT>>

RECURSIVE Markup(_)
Markup(ns) == IF ns = <<>> THEN <<>> ELSE NodeMarkup(Head(ns)) \o Markup(Tail(ns))

\* UTF-8 of the response text (every character of the markup is below U+0800).
RECURSIVE Utf8(_)
Utf8(cs) ==
    IF cs = <<>> THEN <<>>
    ELSE (IF Head(cs) < 128 THEN <<Head(cs)>>
          ELSE <<192 + (Head(cs) \div 64), 128 + (Head(cs) % 64)>>) \o Utf8(Tail(cs))

ParserReset == [tk |-> "data", depth |-> 0]

\* The state of one doc.write: the tokenizer, the children of doc.body and the
\* indices of the children this call added.
\* A character token: at top level it extends the last text node or starts a
\* new one; inside an element it becomes content of that element.
InsertChar(ps, c) ==
    LET n == Len(ps.body)
    IN IF ps.depth > 0
       THEN [ps EXCEPT !.body[n].data = Append(@, c)]
       ELSE IF n > 0 /\ ps.body[n].kind = "text"
       THEN [ps EXCEPT !.body[n].data = Append(@, c)]
       ELSE [ps EXCEPT !.body = Append(@, TextNode(<<c>>)),
                       !.added = Append(@, n + 1)]

\* A start tag: at top level a new child of doc.body.
StartTag(ps) ==
    LET n == Len(ps.body)
    IN IF ps.depth > 0
       THEN [ps EXCEPT !.body[n].data = Append(@, LT), !.depth = @ + 1, !.tk = "data"]
       ELSE [ps EXCEPT !.body = Append(@, ElemNode(<<>>)),
                       !.added = Append(@, n + 1), !.depth = 1, !.tk = "data"]

EndTag(ps) ==
    LET n == Len(ps.body)
    IN IF ps.depth > 1
       THEN [ps EXCEPT !.body[n].data = Append(@, GT), !.depth = @ - 1, !.tk = "data"]
       ELSE [ps EXCEPT !.depth = 0, !.tk = "data"]

ParseChar(ps, c) ==
    CASE ps.tk = "data" ->
            IF c = LT THEN [ps EXCEPT !.tk = "tagOpen"] ELSE InsertChar(ps, c)
      [] ps.tk = "tagOpen" ->
            IF c = SLASH THEN [ps EXCEPT !.tk = "endTagOpen"]
            ELSE [ps EXCEPT !.tk = "tagName"]
      [] ps.tk = "tagName" ->
            IF c = GT THEN StartTag(ps) ELSE ps
      [] ps.tk = "endTagOpen" -> [ps EXCEPT !.tk = "endTagName"]
      [] ps.tk = "endTagName" ->
            IF c = GT THEN EndTag(ps) ELSE ps

RECURSIVE ParseChars(_, _)
ParseChars(ps, cs) ==
    IF cs = <<>> THEN ps ELSE Call2(ParseChars, ParseChar(ps, Head(cs)), Tail(cs))

\* doc.write(chunk)
docWrite(tok, body, chunk) ==
    ParseChars([tk |-> tok.tk, depth |-> tok.depth, body |-> body, added |-> <<>>],
               chunk)

\* The characters String.prototype.trim removes, as far as the markup of
\* the model has them.
WhiteSpace == {TAB, NEWLINE, SPACE}

RECURSIVE trimStart(_), trimEnd(_)
trimStart(cs) ==
    IF cs # <<>> /\ Head(cs) \in WhiteSpace THEN trimStart(Tail(cs)) ELSE cs

trimEnd(cs) ==
    IF cs # <<>> /\ cs[Len(cs)] \in WhiteSpace
    THEN trimEnd(SubSeq(cs, 1, Len(cs) - 1)) ELSE cs

\* String.prototype.trim
trim(cs) == trimEnd(trimStart(cs))

\* Mutant: the test forgets the node type.
isWhitespace_anyNodeType(n) == trim(n.data) = <<>>

\* node.nodeType === Node.TEXT_NODE && node.textContent.trim() === ''
isWhitespace(n) == n.kind = "text" /\ trim(n.data) = <<>>

-----------------------------------------------------------------------------
(***************************************************************************)
(* dropWhitespaceNodes over an arbitrary iterator of nodes: the for await  *)
(* loop takes one node per step and yields it unless isWhitespace.         *)
(***************************************************************************)

\* A comment node, <!--d-->
CommentNode(d) == [kind |-> "comment", data |-> d]

\* The next node of the underlying iterator arrives: it is yielded or dropped.
FilterStep ==
    /\ filterState = "running"
    /\ filterPos < Len(filterInput)
    /\ filterPos' = filterPos + 1
    /\ filterOutput' = IF isWhitespace(filterInput[filterPos + 1])
                       THEN filterOutput
                       ELSE Append(filterOutput, filterInput[filterPos + 1])
    /\ UNCHANGED <<filterInput, filterState, adapterVars, historyVars, decoderVars,
                   producerVars, consumerVars, fragmentVars, pageVars>>

\* The underlying iterator is done: the loop ends and the generator returns.
FilterEnd ==
    /\ filterState = "running"
    /\ filterPos = Len(filterInput)
    /\ filterState' = "done"
    /\ UNCHANGED <<filterInput, filterPos, filterOutput, adapterVars, historyVars,
                   decoderVars, producerVars, consumerVars, fragmentVars, pageVars>>

\* The consumer calls return() on the generator: the for await loop closes
\* the underlying iterator and no further node is taken.
FilterReturn ==
    /\ filterState = "running"
    /\ filterState' = "returned"
    /\ UNCHANGED <<filterInput, filterPos, filterOutput, adapterVars, historyVars,
                   decoderVars, producerVars, consumerVars, fragmentVars, pageVars>>

\* dropWhitespaceNodes is not in use.
FilterIdle ==
    /\ filterInput = <<>>
    /\ filterPos = 0
    /\ filterOutput = <<>>
    /\ filterState = "done"

-----------------------------------------------------------------------------
(***************************************************************************)
(* parseAndObserveTopLevelNodeAdditions: the asynchronous consumer of the  *)
(* text stream, and the MutationObserver callback.                         *)
(***************************************************************************)

RECURSIVE emitAll(_, _)
\* The observer callback: emit({ value: added, done: false }) per added node.
emitAll(a, ns) ==
    IF ns = <<>> THEN a ELSE Call2(emitAll, emit(a, IterResult(Head(ns))), Tail(ns))

NodeResults(ns) == [i \in 1..Len(ns) |-> IterResult(ns[i])]

\* Mutant: the finally block emits done without obs.disconnect().
Finish_keepsObserving ==
    /\ observing' = observing
    /\ records' = records
    /\ SetAdapter(emit(AdapterState, IterDone))
    /\ emitted' = Append(emitted, IterDone)
    /\ prodState' = "finished"

\* finally { obs.disconnect(); emit({ value: undefined, done: true }); }
Finish ==
    /\ observing' = FALSE
    /\ records' = <<>>
    /\ SetAdapter(emit(AdapterState, IterDone))
    /\ emitted' = Append(emitted, IterDone)
    /\ prodState' = "finished"

\* Mutant: the loop body has no 'if (canceled) break'.
PChunk_ignoresCancel(k) ==
    /\ prodState = "awaitChunk"
    /\ readerState = "reading"
    /\ records = <<>>
    /\ k \in 1..Len(byteSource)
    /\ \E d \in {decodeStream(decoder, Take(byteSource, k))} :
       \E w \in {docWrite(tokenizer, bodyNodes, d.out)} :
          /\ decoder' = d.st
          /\ byteSource' = Drop(byteSource, k)
          /\ tokenizer' = [tk |-> w.tk, depth |-> w.depth]
          /\ bodyNodes' = w.body
          /\ records' = IF observing THEN w.added ELSE <<>>
    /\ UNCHANGED <<readerState, readerLocked, observing, prodState, pendingResolve,
                   resultQueue, promises, emitted, lateWrites, bytesAll, textChunks,
                   sourceNodes, canceled, cancelCalls, historyVars, fragmentVars,
                   consumerVars, filterVars, pageVars>>

\* reader.read() resolves with a chunk of k bytes: iterateReader yields it,
\* parseText yields its decoding, and the loop body either breaks (canceled)
\* or writes the text into doc.  The records of an earlier write have been
\* delivered by then: the observer's microtask precedes the read's result.
PChunkStep(k) ==
    /\ prodState = "awaitChunk"
    /\ readerState = "reading"
    /\ records = <<>>
    /\ k \in 1..Len(byteSource)
    /\ \E d \in {decodeStream(decoder, Take(byteSource, k))} :
       \E w \in {IF canceled THEN ParserReset
                  ELSE docWrite(tokenizer, bodyNodes, d.out)} :
          /\ decoder' = d.st
          /\ byteSource' = Drop(byteSource, k)
          /\ IF canceled
             THEN \* break: the generators are closed, releaseLock() runs
                  /\ readerState' = "closed"
                  /\ readerLocked' = FALSE
                  /\ Finish
                  /\ UNCHANGED <<tokenizer, bodyNodes, lateWrites>>
             ELSE /\ tokenizer' = [tk |-> w.tk, depth |-> w.depth]
                  /\ bodyNodes' = w.body
                  /\ records' = IF observing THEN w.added ELSE <<>>
                  /\ lateWrites' = lateWrites
                  /\ UNCHANGED <<readerState, readerLocked, observing, prodState,
                                 pendingResolve, resultQueue, promises, emitted>>
    /\ UNCHANGED <<bytesAll, sourceNodes, canceled, cancelCalls,
                   historyVars, fragmentVars, consumerVars, filterVars, pageVars>>

PChunk(k) == PChunkStep(k) /\ UNCHANGED textChunks

\* The same step, with the decoded text of the first chunk kept as history.
PChunkLogged(k) ==
    /\ PChunkStep(k)
    /\ textChunks' = IF textChunks = <<>>
                     THEN <<decodeStream(decoder, Take(byteSource, k)).out>>
                     ELSE textChunks

\* The MutationObserver callback runs with the records of the last write.
PDeliver ==
    /\ records # <<>>
    /\ observing
    /\ \E a \in {emitAll(AdapterState, records)} : SetAdapter(a)
    /\ emitted' = emitted \o NodeResults(records)
    /\ records' = <<>>
    /\ UNCHANGED <<sourceNodes, prodState, tokenizer, bodyNodes, observing,
                   canceled, lateWrites, cancelCalls, historyVars, fragmentVars, decoderVars, filterVars,
                   consumerVars, pageVars>>

\* Mutant: iterateReader has no finally { reader.releaseLock() }.
PEnd_keepsLock ==
    /\ prodState = "awaitChunk"
    /\ readerState = "reading"
    /\ records = <<>>
    /\ byteSource = <<>>
    /\ readerState' = "done"
    /\ readerLocked' = readerLocked
    /\ Finish
    /\ UNCHANGED <<bytesAll, byteSource, decoder, textChunks, sourceNodes,
                   tokenizer, bodyNodes, canceled, lateWrites, cancelCalls,
                   historyVars, fragmentVars, consumerVars, filterVars, pageVars>>

\* reader.read() resolves with done: iterateReader and parseText finish, the
\* for await loop ends normally and the finally block runs.
PEnd ==
    /\ prodState = "awaitChunk"
    /\ readerState = "reading"
    /\ records = <<>>
    /\ byteSource = <<>>
    /\ readerState' = "done"
    /\ readerLocked' = FALSE
    /\ Finish
    /\ UNCHANGED <<bytesAll, byteSource, decoder, textChunks, sourceNodes,
                   tokenizer, bodyNodes, canceled, lateWrites, cancelCalls,
                   historyVars, fragmentVars, consumerVars, filterVars, pageVars>>

\* Mutant: a rejected read ends the async function without the finally block.
PFail_skipsFinally ==
    /\ prodState = "awaitChunk"
    /\ readerState = "reading"
    /\ records = <<>>
    /\ readerState' = "failed"
    /\ readerLocked' = FALSE
    /\ prodState' = "finished"
    /\ UNCHANGED <<bytesAll, byteSource, decoder, textChunks, sourceNodes,
                   tokenizer, bodyNodes, canceled, lateWrites, cancelCalls,
                   observing, records, adapterVars,
                   historyVars, fragmentVars, consumerVars, filterVars, pageVars>>

\* reader.read() rejects: iterateReader's finally releases the lock, the error
\* ends both generators and the loop, and the finally block runs.
PFail ==
    /\ prodState = "awaitChunk"
    /\ readerState = "reading"
    /\ records = <<>>
    /\ readerState' = "failed"
    /\ readerLocked' = FALSE
    /\ Finish
    /\ UNCHANGED <<bytesAll, byteSource, decoder, textChunks, sourceNodes,
                   tokenizer, bodyNodes, canceled, lateWrites, cancelCalls,
                   historyVars, fragmentVars, consumerVars, filterVars, pageVars>>

-----------------------------------------------------------------------------
(***************************************************************************)
(* streamDomFragment: the chain of async generators between the adapter    *)
(* and the consumer.  streamingParseTopLevelNodes holds back one node,     *)
(* dropWhitespaceNodes filters, streamingParse wraps each node in a        *)
(* Fragment.  The chain runs from one suspension to the next in one step:  *)
(* it stops when it waits for the adapter, yields to the consumer with no  *)
(* request left, or has completed.                                         *)
(***************************************************************************)

\* The state the chain works on: a = adapter, prev/cur/pos = the detector's
\* locals and position, st = genState, queue = the consumer's requests,
\* recv/det = histories, sub = the subscribable has been invoked.
ChainState ==
    [a |-> AdapterState, prev |-> prevNode, cur |-> curNode, pos |-> detPos,
     st |-> genState, queue |-> genQueue, recv |-> received, det |-> detected,
     canceled |-> canceled, cancels |-> cancelCalls, sub |-> prodState # "idle"]

\* An answer to the consumer: to a next() or return() request, a Fragment of
\* a node (with the node's content at that moment) or done.
FragmentAnswer(n) ==
    [req |-> "next", done |-> FALSE, node |-> n, content |-> bodyNodes[n]]
DoneAnswer(req) ==
    [req |-> req, done |-> TRUE, node |-> 0, content |-> TextNode(<<>>)]

\* What the detector yields, with what was known at that moment: the node's
\* content, whether the addition of its next sibling had been emitted, and
\* the state of the byte source.
Detection(n) ==
    [node |-> n, content |-> bodyNodes[n],
     nextSeen |-> \E i \in 1..Len(emitted) : emitted[i] = IterResult(n + 1),
     source |-> readerState]

RECURSIVE DetPull(_), DetGot(_, _), DetYield(_, _), DetResume(_), Drain(_), Complete(_)

\* Mutant: the detector yields every node as soon as it is received.
DetGot_eager(g, r) ==
    IF r.done
    THEN Call1(Complete, [g EXCEPT !.pos = "final"])
    ELSE Call2(DetYield, [g EXCEPT !.cur = r.value, !.prev = r.value, !.pos = "loop"], r.value)

\* Mutant: the node held when the done result arrives is not yielded.
DetGot_dropsLast(g, r) ==
    IF r.done
    THEN Call1(Complete, [g EXCEPT !.pos = "final"])
    ELSE IF g.prev # 0
         THEN Call2(DetYield, [g EXCEPT !.cur = r.value, !.pos = "loop"], g.prev)
         ELSE Call1(DetPull, [g EXCEPT !.prev = r.value])

\* Mutant: a new node overwrites the held node, which is never yielded.
DetGot_overwrites(g, r) ==
    IF r.done
    THEN IF g.prev # 0
         THEN Call2(DetYield, [g EXCEPT !.pos = "final"], g.prev)
         ELSE Call1(Complete, [g EXCEPT !.pos = "final"])
    ELSE Call1(DetPull, [g EXCEPT !.prev = r.value])

\* streamingParseTopLevelNodes, lines 168-172: the loop received a result.
DetGot(g, r) ==
    IF r.done
    THEN IF g.prev # 0
         THEN Call2(DetYield, [g EXCEPT !.pos = "final"], g.prev)
         ELSE Call1(Complete, [g EXCEPT !.pos = "final"])
    ELSE IF g.prev # 0
         THEN Call2(DetYield, [g EXCEPT !.cur = r.value, !.pos = "loop"], g.prev)
         ELSE Call1(DetPull, [g EXCEPT !.prev = r.value])

\* for await (const node of nodes): nodes.next() on the adapter.
DetPull(g) ==
    LET a2 == next(g.a)
        p == a2.ps[Len(a2.ps)]
    IN IF p.state = "resolved"
       THEN Call2(DetGot, [g EXCEPT !.a = a2], p.result)
       ELSE [g EXCEPT !.a = a2, !.st = "awaiting"]

\* The detector is resumed at its yield: prevNode = node and the next
\* iteration (line 170), or the end of the function (line 172).
DetResume(g) ==
    IF g.pos = "loop"
    THEN Call1(DetPull, [g EXCEPT !.prev = g.cur, !.cur = 0])
    ELSE Call1(Complete, g)

\* Mutant: dropWhitespaceNodes looks at the first character of the node only.
DetYield_testsFirstChar(g, n) ==
    LET g2 == [g EXCEPT !.det = Append(@, Detection(n))]
    IN IF bodyNodes[n].kind = "text" /\ trim(SubSeq(bodyNodes[n].data, 1, 1)) = <<>>
       THEN Call1(DetResume, g2)
       ELSE Call1(Drain, [g2 EXCEPT !.recv = Append(@, FragmentAnswer(n)),
                             !.queue = Tail(@), !.st = "yielded"])

\* The detector yields node n: dropWhitespaceNodes drops it and asks for the
\* next one, or passes it on; streamingParse yields Fragment.of(node) to the
\* consumer, which answers the request at the head of the queue.
DetYield(g, n) ==
    LET g2 == [g EXCEPT !.det = Append(@, Detection(n))]
    IN IF isWhitespace(bodyNodes[n])
       THEN Call1(DetResume, g2)
       ELSE Call1(Drain, [g2 EXCEPT !.recv = Append(@, FragmentAnswer(n)),
                             !.queue = Tail(@), !.st = "yielded"])

\* Every generator of the chain has returned: the request is answered done.
Complete(g) ==
    Call1(Drain, [g EXCEPT !.recv = Append(@, DoneAnswer(Head(g.queue))),
                    !.queue = Tail(@), !.st = "completed"])

\* return() on the adapter: cancel() sets the flag.
adapterReturn(g) == [g EXCEPT !.canceled = TRUE, !.cancels = @ + 1]

\* Mutant: a return() is answered done but leaves the generators suspended.
Drain_keepsOpen(g) ==
    IF g.queue = <<>> THEN g
    ELSE IF g.st = "completed" THEN Call1(Complete, g)
    ELSE IF Head(g.queue) = "next"
    THEN IF g.st = "start"
         THEN Call1(DetPull, [g EXCEPT !.sub = TRUE, !.pos = "loop"])
         ELSE Call1(DetResume, g)
    ELSE Call1(Drain, [g EXCEPT !.recv = Append(@, DoneAnswer("return")),
                                     !.queue = Tail(@)])

\* The async generator takes the next request of its queue.
Drain(g) ==
    IF g.queue = <<>> THEN g
    ELSE IF g.st = "completed" THEN Call1(Complete, g)
    ELSE IF Head(g.queue) = "next"
    THEN IF g.st = "start"
         THEN \* the bodies start: the subscribable is invoked, then the
              \* detector's loop asks the adapter for the first result
              Call1(DetPull, [g EXCEPT !.sub = TRUE, !.pos = "loop"])
         ELSE Call1(DetResume, g)
    ELSE \* return: suspended at the start nothing runs; suspended at a yield
         \* inside the loop the for await loops close their iterators, down
         \* to the adapter's return()
         IF g.st = "yielded" /\ g.pos = "loop"
         THEN Call1(Complete, adapterReturn(g))
         ELSE Call1(Complete, g)

SetChain(g) ==
    /\ SetAdapter(g.a)
    /\ prevNode' = g.prev
    /\ curNode' = g.cur
    /\ detPos' = g.pos
    /\ genState' = g.st
    /\ genQueue' = g.queue
    /\ received' = g.recv
    /\ detected' = g.det
    /\ canceled' = g.canceled
    /\ cancelCalls' = g.cancels
    \* the subscribable: createHTMLDocument, obs.observe, and the async
    \* function runs up to reader.read() behind stream.getReader()
    /\ IF g.sub /\ prodState = "idle"
       THEN /\ prodState' = "awaitChunk"
            /\ observing' = TRUE
            /\ readerLocked' = TRUE
       ELSE UNCHANGED <<prodState, observing, readerLocked>>
    /\ UNCHANGED <<emitted, historyVars, fragmentVars, filterVars, bytesAll, byteSource, readerState,
                   decoder, textChunks, sourceNodes, tokenizer, bodyNodes,
                   records, lateWrites, pageVars>>

DoneAnswers == Len(SelectSeq(received, LAMBDA r : r.done /\ r.req = "next"))

\* The consumer's request: the generator takes it at once unless it is
\* running (waiting for the adapter); then the request waits in the queue.
Request(req) ==
    /\ LET g == [ChainState EXCEPT !.queue = Append(@, req)]
       IN \E g2 \in {IF genState = "awaiting" THEN g ELSE Drain(g)} : SetChain(g2)

\* The consumer calls next() on the generator of streamDomFragment, one call
\* at a time as a for await loop does.
CNext ==
    /\ DoneAnswers < MaxDone
    /\ \A i \in 1..Len(genQueue) : genQueue[i] # "next"
    /\ Request("next")

\* The consumer calls return() (a break out of its for await loop).
CReturn ==
    /\ \A i \in 1..Len(received) : received[i].req # "return"
    /\ \A i \in 1..Len(genQueue) : genQueue[i] # "return"
    /\ Request("return")

\* The promise of the detector's nodes.next() has been resolved by an emit:
\* the loop goes on with the result.
GResume ==
    /\ genState = "awaiting"
    /\ promises[Len(promises)].state = "resolved"
    /\ \E g \in {DetGot(ChainState, promises[Len(promises)].result)} : SetChain(g)

StreamIdle ==
    /\ sourceNodes = <<>>
    /\ prodState = "idle"
    /\ tokenizer = ParserReset
    /\ bodyNodes = <<>>
    /\ records = <<>>
    /\ observing = FALSE
    /\ canceled = FALSE
    /\ lateWrites = 0
    /\ genState = "start"
    /\ detPos = "loop"
    /\ prevNode = 0
    /\ curNode = 0
    /\ genQueue = <<>>
    /\ received = <<>>
    /\ detected = <<>>

-----------------------------------------------------------------------------
(***************************************************************************)
(* The DOM under Fragment: nodes are objects with an identity, heap[id].   *)
(* A template element holds its children in a separate content fragment;   *)
(* a shadow root hangs off its host and is no child of it.                 *)
(***************************************************************************)

\* The markup a Fragment is made from, as a term: a text node, a script with
\* its type and src attributes ("" = attribute absent), a div, a template
\* with its shadowroot attribute, or a DocumentFragment of top-level nodes.
TextT ==
    [tag |-> "#text", mode |-> "", type |-> "", src |-> "", text |-> "text",
     kids |-> <<>>]
\* a text node of one space
SpaceT ==
    [tag |-> "#text", mode |-> "", type |-> "", src |-> "", text |-> " ",
     kids |-> <<>>]
ScriptT(t, s) ==
    [tag |-> "script", mode |-> "", type |-> t, src |-> s,
     text |-> IF s = "" THEN "code" ELSE "", kids |-> <<>>]
DivT(ks) ==
    [tag |-> "div", mode |-> "", type |-> "", src |-> "", text |-> "", kids |-> ks]
TemplateT(m, ks) ==
    [tag |-> "template", mode |-> m, type |-> "", src |-> "", text |-> "", kids |-> ks]
FragmentT(ks) ==
    [tag |-> "#fragment", mode |-> "", type |-> "", src |-> "", text |-> "",
     kids |-> ks]

\* A Node object.  kind is the node type; shadowroot is the attribute of a
\* template and the mode of a shadow root; inert is the "do not execute"
\* mark of a script made by a parser with scripting disabled; origin is
\* history: the node of the source this node is a copy of.
NewNode(kind, tag) ==
    [kind |-> kind, tag |-> tag, shadowroot |-> "", type |-> "", src |-> "",
     text |-> "", kids |-> <<>>, parent |-> 0, content |-> 0, shadow |-> 0,
     inert |-> FALSE, origin |-> 0]

NodeKind(tag) ==
    IF tag = "#text" THEN "text" ELSE IF tag = "#fragment" THEN "fragment" ELSE "element"

RECURSIVE parseNode(_, _, _), parseNodes(_, _, _)

\* The parser creates the node of term t under parent (0 = none) and returns
\* the heap; the new node has the id Len(h) + 1.  The children of a template
\* go into its content; a script is marked inert.
parseNode(h, t, parent) ==
    LET id == Len(h) + 1
        n == [NewNode(NodeKind(t.tag), t.tag) EXCEPT
                 !.shadowroot = t.mode, !.type = t.type, !.src = t.src,
                 !.parent = parent, !.inert = (t.tag = "script"),
                 !.text = t.text]
    IN IF t.tag = "template"
       THEN Call3(parseNodes,
                  h \o <<[n EXCEPT !.content = id + 1], NewNode("fragment", "#fragment")>>,
                  t.kids, id + 1)
       ELSE Call3(parseNodes, Append(h, n), t.kids, id)

parseNodes(h, ts, parent) ==
    IF ts = <<>> THEN h
    ELSE LET kid == Len(h) + 1
         IN Call3(parseNodes,
                  [Call3(parseNode, h, Head(ts), parent) EXCEPT ![parent].kids = Append(@, kid)],
                  Tail(ts), parent)

\* The node a copy descends from.
Origin(h, id) == IF h[id].origin # 0 THEN h[id].origin ELSE id

RECURSIVE cloneNode(_, _, _), cloneChildren(_, _, _)

\* node.cloneNode(deep): a new node with the same attributes, data and marks
\* and no parent; with deep, copies of the children and of a template's
\* content.  A shadow root is not copied.  Returns [h, id].
cloneNode(h, id, deep) ==
    LET new == Len(h) + 1
        isTemplate == h[id].tag = "template"
        copy == [h[id] EXCEPT !.kids = <<>>, !.parent = 0, !.shadow = 0,
                              !.origin = Origin(h, id),
                              !.content = IF isTemplate THEN new + 1 ELSE 0]
        h1 == IF isTemplate
              THEN h \o <<copy, [NewNode("fragment", "#fragment") EXCEPT
                                    !.origin = Origin(h, h[id].content)]>>
              ELSE Append(h, copy)
        h2 == IF deep /\ isTemplate
              THEN Call3(cloneChildren, h1, h[h[id].content].kids, new + 1)
              ELSE h1
    IN [h  |-> IF deep THEN Call3(cloneChildren, h2, h[id].kids, new) ELSE h2,
        id |-> new]

\* The copies of the nodes ks are appended to the node into.
cloneChildren(h, ks, into) ==
    IF ks = <<>> THEN h
    ELSE LET c == Call3(cloneNode, h, Head(ks), TRUE)
         IN Call3(cloneChildren,
                  [c.h EXCEPT ![c.id].parent = into, ![into].kids = Append(@, c.id)],
                  Tail(ks), into)

\* Mutant: document.importNode without the deep flag.
importNode_shallow(h, id) == cloneNode(h, id, FALSE)

\* Mutant: importNode returns the node it was given.
importNode_alias(h, id) == [h |-> h, id |-> id]

\* document.importNode(node, true)
importNode(h, id) == cloneNode(h, id, TRUE)

RECURSIVE Descendants(_, _), DescendantsOf(_, _)

\* The descendants of a node in tree order: its children and theirs, not the
\* node itself, not the content of a template, not a shadow tree.
Descendants(h, id) == DescendantsOf(h, h[id].kids)

DescendantsOf(h, ks) ==
    IF ks = <<>> THEN <<>>
    ELSE <<Head(ks)>> \o Descendants(h, Head(ks)) \o DescendantsOf(h, Tail(ks))

\* root.querySelectorAll('script')
querySelectorAllScripts(h, root) ==
    SelectSeq(Descendants(h, root), LAMBDA n : h[n].tag = "script")

\* root.querySelectorAll('template[shadowroot]')
querySelectorAllTemplates(h, root) ==
    SelectSeq(Descendants(h, root),
              LAMBDA n : h[n].tag = "template" /\ h[n].shadowroot # "")

\* node.parentElement: the parent when it is an element, else null (0).
parentElement(h, id) ==
    IF h[id].parent # 0 /\ h[h[id].parent].kind = "element" THEN h[id].parent ELSE 0

RemoveId(ks, id) == SelectSeq(ks, LAMBDA k : k # id)

\* node.remove()
remove(h, id) ==
    IF h[id].parent = 0 THEN h
    ELSE [h EXCEPT ![h[id].parent].kids = RemoveId(@, id), ![id].parent = 0]

RECURSIVE ReplaceId(_, _, _)
ReplaceId(ks, old, new) ==
    IF ks = <<>> THEN <<>>
    ELSE <<IF Head(ks) = old THEN new ELSE Head(ks)>> \o ReplaceId(Tail(ks), old, new)

\* old.replaceWith(new): nothing happens when old has no parent.
replaceWith(h, old, new) ==
    IF h[old].parent = 0 THEN h
    ELSE [h EXCEPT ![h[old].parent].kids = ReplaceId(@, old, new),
                   ![new].parent = h[old].parent,
                   ![old].parent = 0]

RECURSIVE setParent(_, _, _)
\* The nodes ks get the parent p.
setParent(h, ks, p) ==
    IF ks = <<>> THEN h
    ELSE Call3(setParent, [h EXCEPT ![Head(ks)].parent = p], Tail(ks), p)

\* target.appendChild(fragment): the children of the fragment move to target.
appendChild(h, target, frag) ==
    setParent([h EXCEPT ![target].kids = @ \o h[frag].kids, ![frag].kids = <<>>],
              h[frag].kids, target)

RECURSIVE Reach(_, _)
\* Every node of the tree under a node: children, template contents and
\* shadow trees included.
Reach(h, id) ==
    {id} \cup UNION {Reach(h, h[id].kids[i]) : i \in 1..Len(h[id].kids)}
         \cup (IF h[id].content # 0 THEN Reach(h, h[id].content) ELSE {})
         \cup (IF h[id].shadow # 0 THEN Reach(h, h[id].shadow) ELSE {})

\* node.nodeType === Node.TEXT_NODE && node.textContent.trim() === '', for a
\* node of the heap or of a tree value: " " and "" are the strings of the
\* model that trim to the empty string.
isWhitespaceText(n) == n.tag = "#text" /\ n.text \in {"", " "}

RECURSIVE Tree(_, _)
\* The tree under a node as a value, without the identities of its nodes.
Tree(h, id) ==
    [tag |-> h[id].tag, shadowroot |-> h[id].shadowroot, type |-> h[id].type,
     src |-> h[id].src, text |-> h[id].text, inert |-> h[id].inert,
     kids |-> [i \in 1..Len(h[id].kids) |-> Tree(h, h[id].kids[i])],
     content |-> IF h[id].content = 0 THEN <<>> ELSE <<Tree(h, h[id].content)>>,
     shadow |-> IF h[id].shadow = 0 THEN <<>> ELSE <<Tree(h, h[id].shadow)>>]

-----------------------------------------------------------------------------
(***************************************************************************)
(* Fragment.cloneContent with fixupDeclarativeShadowDom and fixupScripts   *)
(***************************************************************************)

\* The elements attachShadow accepts as a host.
ValidShadowHost(n) == n.kind = "element" /\ n.tag = "div"

\* One iteration of the loop of fixupDeclarativeShadowDom.  st = [h, error];
\* an exception ends the loop and the function.
stampTemplate(st, template) ==
    IF st.error # "none" THEN st
    ELSE LET h == st.h
             mode == h[template].shadowroot
             host == parentElement(h, template)
         IN IF mode = "" THEN st
            ELSE IF host = 0
            THEN \* template.parentElement is null
                 [st EXCEPT !.error = "TypeError"]
            ELSE IF ~ValidShadowHost(h[host]) \/ h[host].shadow # 0
            THEN \* attachShadow throws
                 [st EXCEPT !.error = "NotSupportedError"]
            ELSE LET shadowRoot == Len(h) + 1
                     h1 == Append([h EXCEPT ![host].shadow = shadowRoot],
                                  [NewNode("shadowroot", "#shadow-root") EXCEPT
                                      !.shadowroot = mode])
                     contents == Call3(cloneNode, h1, h[template].content, TRUE)
                 IN [st EXCEPT !.h = remove(Call3(appendChild, contents.h, shadowRoot,
                                                  contents.id),
                                            template)]

RECURSIVE stampTemplates(_, _)
stampTemplates(st, templates) ==
    IF templates = <<>> THEN st
    ELSE Call2(stampTemplates, Call2(stampTemplate, st, Head(templates)), Tail(templates))

\* fixupDeclarativeShadowDom(root): [h, error]
fixupDeclarativeShadowDom(h, root) ==
    stampTemplates([h |-> h, error |-> "none"], querySelectorAllTemplates(h, root))

\* Mutant: manualClone copies every attribute but type.
manualClone_dropsType(h, oldScript) ==
    [NewNode("element", "script") EXCEPT
        !.src = h[oldScript].src,
        !.text = h[oldScript].text, !.origin = Origin(h, oldScript)]

\* manualClone(oldScript): createElement('script') with the attributes and the
\* text of oldScript.
manualClone(h, oldScript) ==
    [NewNode("element", "script") EXCEPT
        !.type = h[oldScript].type, !.src = h[oldScript].src,
        !.text = h[oldScript].text, !.origin = Origin(h, oldScript)]

\* Mutant: the set is asked by value: a script is skipped when a member of
\* the set has its attributes and text.
fixScript_byValue(st, oldScript) ==
    IF \E f \in st.fixed :
          /\ st.h[f].type = st.h[oldScript].type
          /\ st.h[f].src = st.h[oldScript].src
          /\ st.h[f].text = st.h[oldScript].text
    THEN st
    ELSE LET newScript == Len(st.h) + 1
         IN [h |-> replaceWith(Append(st.h, manualClone(st.h, oldScript)),
                               oldScript, newScript),
             fixed |-> st.fixed \cup {newScript}]

\* One iteration of the loop of fixupScripts.  st = [h, fixed].
fixScript(st, oldScript) ==
    IF oldScript \in st.fixed THEN st
    ELSE LET newScript == Len(st.h) + 1
         IN [h |-> replaceWith(Append(st.h, manualClone(st.h, oldScript)),
                               oldScript, newScript),
             fixed |-> st.fixed \cup {newScript}]

RECURSIVE fixScripts(_, _)
fixScripts(st, scripts) ==
    IF scripts = <<>> THEN st
    ELSE Call2(fixScripts, Call2(fixScript, st, Head(scripts)), Tail(scripts))

\* fixupScripts(root): [h, fixed]
fixupScripts(h, fixed, root) ==
    fixScripts([h |-> h, fixed |-> fixed], querySelectorAllScripts(h, root))

\* Fragment.cloneContent(): [h, fixed, node, error], node = 0 when it threw.
cloneContent(h, fixed, node) ==
    LET clone == Call2(importNode, h, node)
        fixable == clone.h[clone.id].kind \in {"element", "fragment"}
        dsd == IF fixable THEN Call2(fixupDeclarativeShadowDom, clone.h, clone.id)
               ELSE [h |-> clone.h, error |-> "none"]
        scr == IF fixable /\ dsd.error = "none"
               THEN Call3(fixupScripts, dsd.h, fixed, clone.id)
               ELSE [h |-> dsd.h, fixed |-> fixed]
    IN [h |-> scr.h, fixed |-> scr.fixed,
        node |-> IF dsd.error = "none" THEN clone.id ELSE 0,
        error |-> dsd.error]

\* A caller calls cloneContent() on the Fragment.
Clone ==
    /\ wrapped # 0
    /\ Len(clones) < MaxClones
    /\ \E r \in {cloneContent(heap, fixedScriptSet, wrapped)} :
          /\ heap' = r.h
          /\ fixedScriptSet' = r.fixed
          /\ clones' = Append(clones,
                 [node |-> r.node, error |-> r.error,
                  tree |-> IF r.node = 0 THEN <<>> ELSE <<Tree(r.h, r.node)>>])
    /\ UNCHANGED <<wrapped, sourceTree, edits, headScripts, imports, loadedModules,
                   preloadState, adapterVars, historyVars, decoderVars, streamVars, loaderVars,
                   pageVars>>

\* The heap after an operation of the owner of clone c, with the tree the
\* owner now sees.
SetClone(c, h) ==
    /\ heap' = h
    /\ clones' = [clones EXCEPT ![c].tree = <<Tree(h, clones[c].node)>>]
    /\ edits' = edits + 1
    /\ UNCHANGED <<wrapped, sourceTree, fixedScriptSet, headScripts, imports,
                   loadedModules, preloadState, adapterVars, historyVars,
                   decoderVars, streamVars, loaderVars, pageVars>>

\* The owner of a clone sets the text of one of its nodes.
EditText(c, n) ==
    /\ edits < MaxEdits
    /\ c \in 1..Len(clones) /\ clones[c].node # 0
    /\ n \in Reach(heap, clones[c].node)
    /\ SetClone(c, [heap EXCEPT ![n].text = "edited"])

\* The owner of a clone removes one of its nodes from its parent.
Detach(c, n) ==
    /\ edits < MaxEdits
    /\ c \in 1..Len(clones) /\ clones[c].node # 0
    /\ n \in Reach(heap, clones[c].node)
    /\ heap[n].parent # 0
    /\ SetClone(c, remove(heap, n))

\* A caller wraps a clone it was given: Fragment.of(clone).  The model follows
\* the new Fragment from here on.
Rewrap(c) ==
    /\ c \in 1..Len(clones) /\ clones[c].node # 0
    /\ wrapped # clones[c].node
    /\ wrapped' = clones[c].node
    /\ sourceTree' = <<Tree(heap, clones[c].node)>>
    /\ UNCHANGED <<heap, fixedScriptSet, clones, edits, headScripts, imports,
                   loadedModules, preloadState, adapterVars, historyVars,
                   decoderVars, streamVars, loaderVars, pageVars>>

-----------------------------------------------------------------------------
(***************************************************************************)
(* Fragment.preloadScripts                                                 *)
(***************************************************************************)

\* Mutant: a script without src is refused as well.
preloadScript_refusesInline(st, script) ==
    IF st.threw THEN st
    ELSE IF st.h[script].type # "module" \/ st.h[script].src = ""
    THEN [st EXCEPT !.threw = TRUE]
    ELSE LET c == Call3(cloneNode, st.h, script, FALSE)
         IN [st EXCEPT !.h = c.h, !.head = Append(@, c.id)]

\* Mutant: the script itself, not a copy, is appended to document.head.
preloadScript_movesScript(st, script) ==
    IF st.threw THEN st
    ELSE IF st.h[script].type # "module"
    THEN [st EXCEPT !.threw = TRUE]
    ELSE [st EXCEPT !.h = remove(st.h, script), !.head = Append(@, script)]

\* One iteration of the loop of lines 344-352.  st = [h, head, threw]; the
\* throw ends the loop and the function.
preloadScript(st, script) ==
    IF st.threw THEN st
    ELSE IF st.h[script].type # "module"
    THEN [st EXCEPT !.threw = TRUE]
    ELSE LET c == Call3(cloneNode, st.h, script, FALSE)
         IN [st EXCEPT !.h = c.h, !.head = Append(@, c.id)]

RECURSIVE preloadLoop(_, _)
preloadLoop(st, scripts) ==
    IF scripts = <<>> THEN st
    ELSE Call2(preloadLoop, Call2(preloadScript, st, Head(scripts)), Tail(scripts))

\* The specifiers of the import() calls of lines 356-368.
importedSources(h, scripts) ==
    {h[scripts[i]].src : i \in {j \in 1..Len(scripts) : h[scripts[j]].src # ""}}

\* A caller calls preloadScripts(): the function runs up to its throw or up
\* to the await of Promise.all.
PreloadRun ==
    /\ IF heap[wrapped].kind \notin {"element", "fragment"}
       THEN /\ preloadState' = "pending"
            /\ UNCHANGED <<heap, headScripts, imports>>
       ELSE \E scripts \in {querySelectorAllScripts(heap, wrapped)} :
            \E st \in {preloadLoop([h |-> heap, head |-> headScripts, threw |-> FALSE],
                                   scripts)} :
               /\ heap' = st.h
               /\ headScripts' = st.head
               /\ IF st.threw
                  THEN preloadState' = "threw" /\ imports' = imports
                  ELSE /\ preloadState' = "pending"
                       /\ imports' = imports \cup importedSources(heap, scripts)
    /\ UNCHANGED <<wrapped, sourceTree, fixedScriptSet, clones, edits, loadedModules,
                   adapterVars, historyVars, decoderVars, streamVars, loaderVars,
                   pageVars>>

Preload ==
    /\ wrapped # 0
    /\ preloadState = "none"
    /\ PreloadRun

\* A caller calls preloadScripts() once more, after the promise of the
\* earlier call was settled.
PreloadAgain ==
    /\ wrapped # 0
    /\ preloadState \in {"threw", "resolved"}
    /\ Len(headScripts) < MaxHeadScripts
    /\ PreloadRun

\* A module requested by import() has been fetched and executed.
ModuleLoaded(s) ==
    /\ s \in imports \ loadedModules
    /\ loadedModules' = loadedModules \cup {s}
    /\ UNCHANGED <<heap, wrapped, sourceTree, fixedScriptSet, clones, edits,
                   headScripts, imports, preloadState, adapterVars, historyVars,
                   decoderVars, streamVars, loaderVars, pageVars>>

\* Every promise given to Promise.all is resolved: preloadScripts() resolves.
PreloadSettle ==
    /\ preloadState = "pending"
    /\ imports \subseteq loadedModules
    /\ preloadState' = "resolved"
    /\ UNCHANGED <<heap, wrapped, sourceTree, fixedScriptSet, clones, edits,
                   headScripts, imports, loadedModules, adapterVars, historyVars,
                   decoderVars, streamVars, loaderVars, pageVars>>

\* No Fragment exists.
FragmentIdle ==
    /\ heap = <<>>
    /\ wrapped = 0
    /\ sourceTree = <<>>
    /\ fixedScriptSet = {}
    /\ clones = <<>>
    /\ edits = 0
    /\ headScripts = <<>>
    /\ imports = {}
    /\ loadedModules = {}
    /\ preloadState = "none"

\* Fragment.of(node) on the node the parser made of the markup t.
FragmentOf(t) ==
    /\ heap = parseNode(<<>>, t, 0)
    /\ wrapped = 1
    /\ sourceTree = <<Tree(heap, 1)>>
    /\ fixedScriptSet = {}
    /\ clones = <<>>
    /\ edits = 0
    /\ headScripts = <<>>
    /\ imports = {}
    /\ loadedModules = {}
    /\ preloadState = "none"

-----------------------------------------------------------------------------
(***************************************************************************)
(* The callers: a request path fetches a response and hands it to          *)
(* parseDomFragment (load tweet, save edit, embed, router) or to           *)
(* streamDomFragment (stream tweets), clones every Fragment and puts the   *)
(* clone into the document.  loadState is "idle", "fetching" (await        *)
(* fetch), "fetched" (the caller holds res), "readText" (res.text() has    *)
(* resolved), "parsed" (the caller holds the Fragment), "streaming" (the   *)
(* for await loop over streamDomFragment), "done" or "rejected".  On the   *)
(* streaming path the Parse Target is taken with its nodes complete: the   *)
(* node detection is the subject of the stream specification.              *)
(***************************************************************************)

Paths == {"loadTweet", "streamTweets", "saveEdit", "embed", "router"}

\* if (res.status >= 400) throw new Error(...): the paths that have the line.
checksStatus(path) == path \in {"loadTweet", "streamTweets", "saveEdit"}

\* Mutant: an empty header value is taken for a content type.
missingContentType_nullOnly(ct) == ~ct.present

\* !contentType: headers.get returned null or the empty string.  A header
\* value is a sequence of tokens.
missingContentType(ct) == ~ct.present \/ ct.value = <<>>

\* contentType.indexOf(';'), 0 = not found
indexOfSemicolon(v) ==
    IF \E i \in 1..Len(v) : v[i] = ";"
    THEN CHOOSE i \in 1..Len(v) : v[i] = ";" /\ \A k \in 1..(i - 1) : v[k] # ";"
    ELSE 0

\* contentType.indexOf(';') === -1 ? contentType : contentType.slice(0, ...)
simpleContentType(v) ==
    IF indexOfSemicolon(v) = 0 THEN v ELSE SubSeq(v, 1, indexOfSemicolon(v) - 1)

\* The types DOMParser.parseFromString parses into a document with a body;
\* any other string of the model makes it throw a TypeError.
parsesAsHtml(type) == type = <<"text/html">>

Reject(e) ==
    /\ loadState' = "rejected"
    /\ loadError' = e

\* await fetch(...) resolves, and the caller's status test runs if it has one.
Fetched ==
    /\ loadState = "fetching"
    /\ IF checksStatus(request) /\ response.status >= 400
       THEN Reject("HttpStatus")
       ELSE loadState' = "fetched" /\ loadError' = loadError
    /\ UNCHANGED <<request, response, parserCalls, inserted, heap, wrapped, sourceTree,
                   fixedScriptSet, clones, edits, headScripts, imports, loadedModules,
                   preloadState, adapterVars, historyVars, decoderVars, streamVars,
                   pageVars>>

\* parseDomFragment: await res.text() resolves.
ReadText ==
    /\ loadState = "fetched"
    /\ request # "streamTweets"
    /\ loadState' = "readText"
    /\ UNCHANGED <<request, response, loadError, parserCalls, inserted, heap, wrapped,
                   sourceTree, fixedScriptSet, clones, edits, headScripts, imports,
                   loadedModules, preloadState, adapterVars, historyVars, decoderVars,
                   streamVars, pageVars>>

\* parseDomFragment from the content type test to Fragment.of(frag).
ParseResponse ==
    /\ loadState = "readText"
    /\ IF missingContentType(response.contentType)
       THEN /\ Reject("MissingContentType")
            /\ UNCHANGED <<parserCalls, heap, wrapped, sourceTree>>
       ELSE /\ parserCalls' = parserCalls + 1
            /\ IF parsesAsHtml(simpleContentType(response.contentType.value))
               THEN /\ heap' = parseNode(<<>>, response.body, 0)
                    /\ wrapped' = 1
                    /\ sourceTree' = <<Tree(heap', 1)>>
                    /\ loadState' = "parsed"
                    /\ loadError' = loadError
               ELSE /\ Reject("TypeError")
                    /\ UNCHANGED <<heap, wrapped, sourceTree>>
    /\ UNCHANGED <<request, response, inserted, fixedScriptSet, clones, edits,
                   headScripts, imports, loadedModules, preloadState, adapterVars,
                   historyVars, decoderVars, streamVars, pageVars>>

\* The caller clones the wrapped node and inserts the clone; an exception of
\* cloneContent rejects the caller's promise.
CloneAndInsert(after) ==
    \E r \in {cloneContent(heap, fixedScriptSet, wrapped')} :
       /\ heap' = r.h
       /\ fixedScriptSet' = r.fixed
       /\ IF r.error # "none"
          THEN Reject(r.error) /\ inserted' = inserted
          ELSE /\ inserted' = Append(inserted, Tree(r.h, r.node))
               /\ loadState' = after
               /\ loadError' = loadError

\* appendChild / replaceWith / return of frag.cloneContent()
InsertClone ==
    /\ loadState = "parsed"
    /\ wrapped' = wrapped
    /\ CloneAndInsert("done")
    /\ UNCHANGED <<request, response, parserCalls, sourceTree, clones, edits,
                   headScripts, imports, loadedModules, preloadState, adapterVars,
                   historyVars, decoderVars, streamVars, pageVars>>

\* for await (const node of streamDomFragment(res)): the response is parsed
\* into the Parse Target, node 1 of the heap.
StartStream ==
    /\ loadState = "fetched"
    /\ request = "streamTweets"
    /\ heap' = parseNode(<<>>, response.body, 0)
    /\ loadState' = "streaming"
    /\ UNCHANGED <<request, response, loadError, parserCalls, inserted, wrapped,
                   sourceTree, fixedScriptSet, clones, edits, headScripts, imports,
                   loadedModules, preloadState, adapterVars, historyVars, decoderVars,
                   streamVars, pageVars>>

\* The top-level nodes dropWhitespaceNodes lets through.
StreamedNodes(h) == SelectSeq(h[1].kids, LAMBDA k : ~isWhitespaceText(h[k]))

\* streamingParse yields Fragment.of(node) for the next node; the loop body
\* clones it and the caller appends the clone.
StreamYield ==
    /\ loadState = "streaming"
    /\ Len(inserted) < Len(StreamedNodes(heap))
    /\ wrapped' = StreamedNodes(heap)[Len(inserted) + 1]
    /\ CloneAndInsert("streaming")
    /\ UNCHANGED <<request, response, parserCalls, sourceTree, clones, edits,
                   headScripts, imports, loadedModules, preloadState, adapterVars,
                   historyVars, decoderVars, streamVars, pageVars>>

\* streamDomFragment is done: the loop ends.
StreamDone ==
    /\ loadState = "streaming"
    /\ Len(inserted) = Len(StreamedNodes(heap))
    /\ loadState' = "done"
    /\ UNCHANGED <<request, response, loadError, parserCalls, inserted, heap, wrapped,
                   sourceTree, fixedScriptSet, clones, edits, headScripts, imports,
                   loadedModules, preloadState, adapterVars, historyVars, decoderVars,
                   streamVars, pageVars>>

\* No request has been made.
LoaderIdle ==
    /\ request = "none"
    /\ response = [status |-> 0, contentType |-> [present |-> FALSE, value |-> <<>>],
                   body |-> FragmentT(<<>>)]
    /\ loadState = "idle"
    /\ loadError = "none"
    /\ parserCalls = 0
    /\ inserted = <<>>

-----------------------------------------------------------------------------
(***************************************************************************)
(* The em-bed element (em-bed.ts): connectedCallback and the asynchronous  *)
(* function it starts.                                                     *)
(***************************************************************************)

\* The element as one value.
EmbedState ==
    [src |-> embedSrc, loaded |-> loaded, requests |-> embedRequests,
     task |-> embedTask, throws |-> embedThrows]

\* Mutant: connectedCallback without 'this.loaded = true'.
connectedCallback_forgetsLoaded(e) ==
    IF e.loaded THEN e
    ELSE IF e.src = "" THEN [e EXCEPT !.throws = @ + 1]
    ELSE [e EXCEPT !.requests = Append(@, e.src), !.task = "fetching"]

\* connectedCallback(): returns when loaded; throws without src; else sets
\* loaded and starts the async function, which runs up to 'await fetch(src)'.
connectedCallback(e) ==
    IF e.loaded THEN e
    ELSE IF e.src = "" THEN [e EXCEPT !.throws = @ + 1]
    ELSE [e EXCEPT !.loaded = TRUE, !.requests = Append(@, e.src),
                   !.task = "fetching"]

\* The element is inserted into the document: the browser calls
\* connectedCallback.
EmbedAttach ==
    /\ ~embedConnected
    /\ (~loaded /\ embedSrc = "") => embedThrows < MaxEmbedThrows
    /\ embedConnected' = TRUE
    /\ \E e \in {connectedCallback(EmbedState)} :
          /\ loaded' = e.loaded
          /\ embedRequests' = e.requests
          /\ embedTask' = e.task
          /\ embedThrows' = e.throws
    /\ UNCHANGED <<embedSrc, embedChildren, routerVars, adapterVars, historyVars,
                   decoderVars, streamVars, fragmentVars>>

\* The element is removed from the document; the class has no
\* disconnectedCallback.
EmbedDetach ==
    /\ embedConnected
    /\ embedConnected' = FALSE
    /\ UNCHANGED <<embedSrc, loaded, embedRequests, embedTask, embedChildren,
                   embedThrows, routerVars, adapterVars, historyVars, decoderVars,
                   streamVars, fragmentVars>>

\* A script of the page sets or removes the src attribute.
EmbedSetSrc(s) ==
    /\ s # embedSrc
    /\ embedSrc' = s
    /\ UNCHANGED <<embedConnected, loaded, embedRequests, embedTask, embedChildren,
                   embedThrows, routerVars, adapterVars, historyVars, decoderVars,
                   streamVars, fragmentVars>>

\* The async function ends: this.appendChild(template.cloneContent()) has run
\* (ok), or fetch, parseDomFragment or cloneContent has thrown.
EmbedSettle(ok) ==
    /\ embedTask = "fetching"
    /\ embedTask' = IF ok THEN "appended" ELSE "failed"
    /\ embedChildren' = IF ok THEN embedChildren + 1 ELSE embedChildren
    /\ UNCHANGED <<embedSrc, embedConnected, loaded, embedRequests, embedThrows,
                   routerVars, adapterVars, historyVars, decoderVars, streamVars,
                   fragmentVars>>

-----------------------------------------------------------------------------
(***************************************************************************)
(* The Router element (router.ts): createRoute, routeEquals, zip and       *)
(* navigate.  A route is [path, params, hash], params being the list of    *)
(* the <<name, value>> entries of its URLSearchParams.                     *)
(***************************************************************************)

\* createRoute(url)
createRoute(path, params, hash) == [path |-> path, params |-> params, hash |-> hash]

RECURSIVE paramsToString(_)
\* URLSearchParams.prototype.toString: name=value joined by &
paramsToString(ps) ==
    IF ps = <<>> THEN <<>>
    ELSE <<Head(ps)[1], "=", Head(ps)[2]>>
            \o (IF Tail(ps) = <<>> THEN <<>> ELSE <<"&">>) \o paramsToString(Tail(ps))

\* Route.toString(): `${this.path}?${this.params.toString()}${this.hash}`
toString(r) == <<r.path, "?">> \o paramsToString(r.params) \o <<r.hash>>

\* zip(first, second): throws when the lengths differ.
zip(first, second) ==
    IF Len(first) # Len(second)
    THEN [threw |-> TRUE, value |-> <<>>]
    ELSE [threw |-> FALSE,
          value |-> [i \in 1..Len(first) |-> <<first[i], second[i]>>]]

\* routeEquals(first, second): "true", "false", or "threw" when zip throws.
routeEquals(first, second) ==
    IF first.path # second.path THEN "false"
    ELSE IF first.hash # second.hash THEN "false"
    ELSE LET zippedParams == zip(first.params, second.params)
         IN IF zippedParams.threw THEN "threw"
            ELSE IF \E i \in 1..Len(zippedParams.value) :
                       \/ zippedParams.value[i][1][1] # zippedParams.value[i][2][1]
                       \/ zippedParams.value[i][1][2] # zippedParams.value[i][2][2]
            THEN "false"
            ELSE "true"

\* The child nodes of the fragment the server renders for a route.
RouteContent(r) == <<[of |-> toString(r)]>>

\* Map.prototype.set
MapSet(m, k, v) == [x \in DOMAIN m \cup {k} |-> IF x = k THEN v ELSE m[x]]

\* Lines 53-61: the children of the content root are moved into a new
\* fragment, which is stored under the key of prevRoute; the children of
\* newFragment are moved into the content root.  rt = [root, cache].
swapContent(rt, prevRoute, newChildren) ==
    [root |-> newChildren, cache |-> MapSet(rt.cache, toString(prevRoute), rt.root)]

\* navigate(route) up to its first await or its end.  rt = [current, root,
\* cache]; the result adds state: "same" (returned at line 46), "threw"
\* (routeEquals threw: the promise is rejected), "fetching" (awaiting
\* this.route) or "done" (the fragment came from the cache: no await).
navigate(rt, route) ==
    LET prevRoute == rt.current
        eq == routeEquals(prevRoute, route)
        key == toString(route)
    IN IF eq # "false"
       THEN [current |-> route, root |-> rt.root, cache |-> rt.cache,
             state |-> IF eq = "true" THEN "same" ELSE "threw"]
       ELSE IF key \in DOMAIN rt.cache
       THEN \* the cached fragment is emptied by contentRoot.append(newFragment)
            LET sw == swapContent([root |-> rt.root,
                                   cache |-> MapSet(rt.cache, key, <<>>)],
                                  prevRoute, rt.cache[key])
            IN [current |-> route, root |-> sw.root, cache |-> sw.cache,
                state |-> "done"]
       ELSE [current |-> route, root |-> rt.root, cache |-> rt.cache,
             state |-> "fetching"]

\* A click on a link or a popstate event: navigate(route) is called.
Navigate(route) ==
    /\ Len(navs) < MaxNavs
    /\ \E n \in {navigate([current |-> currentRoute, root |-> contentRoot,
                            cache |-> fragmentCache], route)} :
          /\ currentRoute' = n.current
          /\ contentRoot' = n.root
          /\ fragmentCache' = n.cache
          /\ navs' = Append(navs, [prev |-> currentRoute, route |-> route,
                                   state |-> n.state])
    /\ UNCHANGED <<embedVars, adapterVars, historyVars, decoderVars, streamVars,
                   fragmentVars>>

\* The promise of this.route(currentRoute) of the i-th navigate call is
\* resolved: the call goes on from line 53 with its own prevRoute.
NavSettle(i) ==
    /\ i \in 1..Len(navs)
    /\ navs[i].state = "fetching"
    /\ \E sw \in {swapContent([root |-> contentRoot, cache |-> fragmentCache],
                               navs[i].prev, RouteContent(navs[i].route))} :
          /\ contentRoot' = sw.root
          /\ fragmentCache' = sw.cache
    /\ navs' = [navs EXCEPT ![i].state = "done"]
    /\ UNCHANGED <<currentRoute, embedVars, adapterVars, historyVars, decoderVars,
                   streamVars, fragmentVars>>

\* No em-bed element exists.
EmbedIdle ==
    /\ embedSrc = ""
    /\ embedConnected = FALSE
    /\ loaded = FALSE
    /\ embedRequests = <<>>
    /\ embedTask = "none"
    /\ embedChildren = 0
    /\ embedThrows = 0

\* No Router element exists.
RouterIdle ==
    /\ currentRoute = "none"
    /\ contentRoot = <<>>
    /\ fragmentCache = <<>>
    /\ navs = <<>>

PageIdle == EmbedIdle /\ RouterIdle

-----------------------------------------------------------------------------
(***************************************************************************)
(* Specifications and properties                                           *)
(***************************************************************************)

AdapterInit ==
    /\ PageIdle
    /\ AdapterIdle /\ DecoderIdle /\ StreamIdle /\ FilterIdle /\ FragmentIdle /\ LoaderIdle

AdapterNext == AEmit \/ ANext \/ AReturn \/ AThrow

SpecAdapter == AdapterInit /\ [][AdapterNext]_vars

\* The values of the resolved promises, in the order of the next() calls.
DeliveredResults ==
    LET res == SelectSeq(promises, LAMBDA p : p.state = "resolved")
    IN [i \in 1..Len(res) |-> res[i].result]

\* C1: at every moment the values received from the next() calls, in call
\* order, followed by the values still queued, are exactly the emitted values
\* in emission order: none is lost, duplicated or reordered.
C1_EmissionOrder == DeliveredResults \o resultQueue = emitted

\* C1 witness: two next() calls, then an emit that resolves a waiting request,
\* then two emits that are queued, then next() calls that empty the queue:
\* every emitted value has been delivered.
C1_Witness ==
    /\ calls = <<"next", "next", "emit", "emit", "emit", "next", "next">>
    /\ DeliveredResults = emitted
    /\ Len(emitted) = 3

\* C14: a step in which cancel() runs (return() or throw()) while a next()
\* promise is outstanding leaves that promise resolved with the done result.
C14_CancelResolvesOutstanding ==
    [][(cancelCalls' = cancelCalls + 1 /\ pendingResolve # 0)
         => promises'[pendingResolve] = ResolvedPromise(IterDone)]_vars

\* C19: the result queue and the stored resolver are never both non-empty.
C19_QueueOrPendingEmpty == ~(pendingResolve # 0 /\ resultQueue # <<>>)

\* C19 witness: two results were queued, three next() calls followed: the
\* queue was filled and emptied, and now a request is pending.
C19_Witness ==
    /\ calls = <<"emit", "emit", "next", "next", "next">>
    /\ pendingResolve = 3
    /\ resultQueue = <<>>

\* C20: the i-th next() promise is resolved with the i-th emitted result as
\* soon as i results have been emitted, also when next() was called again
\* while an earlier promise was pending.
C20_RequestsResolvedInOrder ==
    \A i \in 1..Len(promises) :
        i <= Len(emitted) => promises[i] = ResolvedPromise(emitted[i])

\* The adapter over a subscribable that ends: values, then one done result.
AdapterDoneNext == AEmitValue \/ AEmitDone \/ ANext \/ AReturn \/ AThrow

SpecAdapterDone == AdapterInit /\ [][AdapterDoneNext]_vars

\* C24: cancelling leaves the result queue as it was, and every next() call
\* made after the cancel while the queue is not empty returns at once the
\* oldest queued result; results emitted after the cancel are put behind the
\* queued ones, so the queued results come out in emission order, the done
\* result (emitted last) after them.
C24_QueuedStayRetrievable ==
    [][/\ cancelCalls' # cancelCalls => resultQueue' = resultQueue
       /\ (cancelCalls > 0 /\ Len(emitted') > Len(emitted) /\ resultQueue # <<>>)
             => resultQueue' = Append(resultQueue, emitted'[Len(emitted')])
       /\ (cancelCalls > 0 /\ Len(promises') > Len(promises) /\ resultQueue # <<>>)
             => /\ promises'[Len(promises')] = ResolvedPromise(Head(resultQueue))
                /\ resultQueue' = Tail(resultQueue)
                /\ \A i \in 1..Len(resultQueue) :
                      resultQueue[i].done => i = Len(resultQueue)]_vars

\* C24 witness: two values and the done result were queued, return() was
\* called, and three next() calls returned the two values and then done.
C24_Witness ==
    /\ calls = <<"emit", "emit", "emit", "return", "next", "next", "next">>
    /\ promises = <<ResolvedPromise(IterResult(1)), ResolvedPromise(IterResult(2)),
                    ResolvedPromise(IterDone)>>
    /\ resultQueue = <<>>

\* C30: every next() call made after the call that returned the done result
\* is resolved, with done.  (The subscribable emits nothing after its done
\* result, so a promise that is pending then is never resolved.)
C30_NextAfterDoneResolves ==
    \A i, j \in 1..Len(promises) :
       (i < j /\ promises[i] = ResolvedPromise(IterDone))
          => (promises[j].state = "resolved" /\ promises[j].result.done)

\* streamDomFragment(res): a response whose body delivers the markup of
\* sourceNodes, UTF-8 encoded, in chunks of any sizes.
StreamInit ==
    /\ PageIdle
    /\ AdapterIdle
    /\ sourceNodes \in Documents
    /\ bytesAll = Utf8(Markup(sourceNodes))
    /\ byteSource = bytesAll
    /\ readerState = "reading"
    /\ readerLocked = FALSE
    /\ decoder = DecoderReset
    /\ textChunks = <<>>
    /\ prodState = "idle"
    /\ tokenizer = ParserReset
    /\ bodyNodes = <<>>
    /\ records = <<>>
    /\ observing = FALSE
    /\ canceled = FALSE
    /\ lateWrites = 0
    /\ genState = "start"
    /\ detPos = "loop"
    /\ prevNode = 0
    /\ curNode = 0
    /\ genQueue = <<>>
    /\ received = <<>>
    /\ detected = <<>>
    /\ FilterIdle
    /\ FragmentIdle
    /\ LoaderIdle

StreamNext ==
    \/ \E k \in 1..(9 * MaxNodes) : PChunk(k)
    \/ PDeliver
    \/ PEnd
    \/ PFail
    \/ CNext
    \/ CReturn
    \/ GResume

SpecStream == StreamInit /\ [][StreamNext]_vars

\* The stream ran to its normal end: the byte source signalled end-of-data
\* and the generators completed without a return() of the consumer.
NormalEnd ==
    /\ readerState = "done"
    /\ genState = "completed"
    /\ \A i \in 1..Len(received) : received[i].req # "return"

\* The Fragments the consumer received, as the content of their nodes.
Fragments ==
    LET fs == SelectSeq(received, LAMBDA r : ~r.done)
    IN [i \in 1..Len(fs) |-> fs[i].content]

\* C2: the detector yields the top-level nodes in document order, each one
\* complete and (unless the byte source failed) only after the addition of its
\* next sibling was emitted or the byte source had ended; at the normal end
\* it has yielded every one of the n nodes exactly once.
C2_DetectorYieldsCompleteNodes ==
    /\ \A i \in 1..Len(detected) :
          /\ detected[i].node = i
          /\ detected[i].source # "failed" =>
                /\ detected[i].nextSeen \/ detected[i].source = "done"
                /\ detected[i].content = sourceNodes[i]
    /\ NormalEnd => Len(detected) = Len(sourceNodes)

\* C2 witness: a two-node response was consumed to its normal end; the
\* first node was yielded while the source was still read, the last one after
\* the source had ended.
C2_Witness ==
    /\ NormalEnd
    /\ Len(sourceNodes) = 3
    /\ Len(detected) = 3
    /\ detected[1].source = "reading"
    /\ detected[3].source = "done" /\ ~detected[3].nextSeen

ReturnAnswered == \E i \in 1..Len(received) : received[i].req = "return"

\* C3: once the consumer's return() has been answered, every later answer is
\* done, no Fragment follows it, and no request of the consumer stays open.
C3_CancelEndsSequence ==
    /\ \A i, j \in 1..Len(received) :
          (i < j /\ received[i].req = "return") => received[j].done
    /\ ReturnAnswered => (genState = "completed" /\ genQueue = <<>>)

\* C3 witness: the consumer received one Fragment of a two-node response,
\* cancelled while the source was still being read, and its next request was
\* answered done.
C3_Witness ==
    /\ Len(sourceNodes) = 3
    /\ canceled
    /\ Len(received) = 3
    /\ ~received[1].done
    /\ received[2].req = "return"
    /\ received[3].req = "next" /\ received[3].done
    /\ Len(emitted) >= 2

\* C5 as stated: at the normal end the consumer has received one Fragment per
\* source node, each equal to its source node, in order.
C5_OneFragmentPerNode == NormalEnd => Fragments = sourceNodes

\* C5 amended: at the normal end, whatever the chunking was, the consumer has
\* received one Fragment per source node that is not a whitespace-only text
\* node, each equal to its source node, in order.
C5_ChunkingIndependent ==
    NormalEnd => Fragments = SelectSeq(sourceNodes, LAMBDA n : ~isWhitespace(n))

\* C5 witness: a response of an element, a whitespace text node and an
\* element with a two-byte character was consumed to its normal end.
C5_Witness ==
    /\ NormalEnd
    /\ Len(sourceNodes) = 3
    /\ isWhitespace(sourceNodes[2])
    /\ Fragments = <<sourceNodes[1], sourceNodes[3]>>
    /\ sourceNodes[3] = ElemNode(<<EACUTE>>)

\* C15: a step taken while the canceled flag is set writes nothing into
\* doc.body and passes no node to emit: the only result emitted is the done
\* result of the finally block.
C15_NothingAfterCancel ==
    [][canceled =>
          /\ bodyNodes' = bodyNodes
          /\ \A i \in (Len(emitted) + 1)..Len(emitted') : emitted'[i].done]_vars

\* The results the loop of streamingParseTopLevelNodes has taken from the
\* adapter: those of its nodes.next() promises, but for a promise that is
\* resolved while the loop has not been resumed yet.
TakenResults ==
    LET n == IF genState = "awaiting" THEN Len(promises) - 1 ELSE Len(promises)
    IN [i \in 1..n |-> promises[i].result]

TakenNodes ==
    LET rs == SelectSeq(TakenResults, LAMBDA r : ~r.done)
    IN [i \in 1..Len(rs) |-> rs[i].value]

DoneTaken == \E i \in 1..Len(TakenResults) : TakenResults[i].done

\* C21: the detector has yielded the nodes it has taken in their order, all
\* but at most one; while no done result was taken exactly the last node
\* taken is held back (it replaced the node yielded when it arrived), and
\* once the done result was taken no node is held back.
C21_LookaheadHoldsOne ==
    /\ Len(TakenNodes) - Len(detected) \in {0, 1}
    /\ \A i \in 1..Len(detected) : detected[i].node = TakenNodes[i]
    /\ DoneTaken => Len(detected) = Len(TakenNodes)
    /\ (~DoneTaken /\ TakenNodes # <<>>) =>
          /\ Len(detected) = Len(TakenNodes) - 1
          /\ genState = "awaiting" => prevNode = TakenNodes[Len(TakenNodes)]
          /\ genState = "yielded" =>
                (curNode = TakenNodes[Len(TakenNodes)] /\ prevNode = detected[Len(detected)].node)

\* C21 witness: two nodes of a two-node response were yielded while the
\* source was still read, and the third is held back.
C21_Witness ==
    /\ Len(sourceNodes) = 3
    /\ readerState = "reading"
    /\ genState = "awaiting"
    /\ Len(detected) = 2
    /\ prevNode = 3

\* The stream specification for responses of up to MaxFairNodes nodes, with
\* the scheduling the platform gives: the byte source goes on delivering
\* chunks and its end, the observer's microtask and the continuation of a
\* resolved promise run, and the consumer's loop goes on asking.
StreamFairInit == StreamInit /\ Len(sourceNodes) <= MaxFairNodes

SpecStreamFair ==
    /\ StreamFairInit
    /\ [][StreamNext]_vars
    /\ WF_vars(\E k \in 1..(9 * MaxNodes) : PChunk(k))
    /\ WF_vars(PDeliver)
    /\ WF_vars(PEnd)
    /\ WF_vars(GResume)
    /\ WF_vars(CNext)

\* At the normal end every node of the response was emitted before the done
\* result, every node was yielded by the detector, the last one after the
\* source had ended, and the last answer to the consumer is done.
FlushedAtEnd ==
    /\ emitted = NodeResults([i \in 1..Len(sourceNodes) |-> i]) \o <<IterDone>>
    /\ [i \in 1..Len(detected) |-> detected[i].node] = [i \in 1..Len(sourceNodes) |-> i]
    /\ detected # <<>> => detected[Len(detected)].source = "done"
    /\ received[Len(received)] = DoneAnswer("next")
    /\ \A i, j \in 1..Len(received) : (i < j /\ received[i].done) => received[j].done
    /\ sourceNodes = <<>> => \A i \in 1..Len(received) : received[i] = DoneAnswer("next")

\* C22: the consumer's sequence always comes to its end, and when it does so
\* with the byte source exhausted, every node was emitted before the done
\* result, the held node was released and the sequence ended with done; for
\* an empty response it holds the done answer only.
C22_FlushAndTerminate ==
    /\ [](NormalEnd => FlushedAtEnd)
    /\ <>(genState = "completed")

\* C22 witness: a two-node response came to its normal end; the last node
\* was yielded after the source had ended, then done.
C22_Witness ==
    /\ NormalEnd
    /\ Len(sourceNodes) = 2
    /\ Len(detected) = 2
    /\ detected[2].source = "done"
    /\ received[Len(received)] = DoneAnswer("next")

\* The async function of the subscribable has ended: the observer is
\* disconnected and the done result is the last result emitted.
Completed ==
    /\ prodState = "finished"
    /\ ~observing
    /\ emitted # <<>> /\ emitted[Len(emitted)] = IterDone

\* C23: once the canceled flag is set no step writes into doc.body, the
\* detector yields no further node and the consumer gets no further
\* Fragment (the node held at that moment is never yielded); and the async
\* function comes to its end: the observer is disconnected and done emitted.
C23_CancelPropagates ==
    /\ [][canceled =>
             /\ bodyNodes' = bodyNodes
             /\ detected' = detected
             /\ \A i \in (Len(received) + 1)..Len(received') : received'[i].done]_vars
    /\ canceled ~> Completed

\* C23 witness: the consumer cancelled a two-node response after its first
\* Fragment, while bytes were still to come; the second node, held by the
\* detector, was not yielded, and the async function has ended.
C23_Witness ==
    /\ Len(sourceNodes) = 2
    /\ canceled
    /\ Completed
    /\ readerState = "closed"
    /\ curNode = 2
    /\ Len(detected) = 1
    /\ \A i \in 1..Len(received) : ~received[i].done => received[i].node = 1

\* The positions of the done results among the emitted results.
DonePositions == {i \in 1..Len(emitted) : emitted[i].done}

\* C27: the subscription has emitted done once when the async function has
\* ended, which it has as soon as the chunk source ended, was cancelled or
\* failed, and not before; the done result is the last result emitted, and
\* from then on the observer is disconnected with no record left to deliver.
C27_DoneOnceAndLast ==
    /\ Cardinality(DonePositions) = IF prodState = "finished" THEN 1 ELSE 0
    /\ readerState \in {"done", "closed", "failed"} <=> prodState = "finished"
    /\ DonePositions # {} =>
          /\ DonePositions = {Len(emitted)}
          /\ ~observing
          /\ records = <<>>

\* C27 witness: the read of a two-node response failed after both nodes had
\* been emitted: two node results, then the one done result.
C27_Witness ==
    /\ readerState = "failed"
    /\ emitted = <<IterResult(1), IterResult(2), IterDone>>
    /\ ~observing

\* The read failed and the consumer, who never cancelled, got its last answer.
FailedEnd ==
    /\ readerState = "failed"
    /\ genState = "completed"
    /\ \A i \in 1..Len(received) : received[i].req # "return"

StreamLogNext ==
    \/ \E k \in 1..(9 * MaxNodes) : PChunkLogged(k)
    \/ PDeliver
    \/ PEnd
    \/ PFail
    \/ CNext
    \/ CReturn
    \/ GResume

SpecStreamLog == StreamFairInit /\ [][StreamLogNext]_vars

\* The node n was handed to the consumer as a Fragment.
Retained(n) == \E j \in 1..Len(received) : ~received[j].done /\ received[j].node = n

\* C29: unless the read failed, dropWhitespaceNodes sees a node when all of
\* its text is there, however the response was cut into chunks: the node is
\* handed on exactly when the text node of the source is not whitespace, so a
\* text node that began with a chunk of whitespace is kept.
C29_WhitespaceTestOnCompleteNode ==
    \A i \in 1..Len(detected) :
       detected[i].source # "failed" =>
          /\ detected[i].content = sourceNodes[i]
          /\ Retained(i) <=> ~isWhitespace(sourceNodes[i])
          /\ Retained(i) => \E j \in 1..Len(received) :
                                received[j].node = i /\ received[j].content = sourceNodes[i]

\* C29 witness: the first chunk of the response was a space, later chunks
\* added a character to the same text node and the element after it; the
\* consumer received the text node with both characters.
C29_Witness ==
    /\ sourceNodes = <<TextNode(<<SPACE, EACUTE>>), ElemNode(<<EACUTE>>)>>
    /\ textChunks = <<<<SPACE>>>>
    /\ received # <<>>
    /\ received[1] = [req |-> "next", done |-> FALSE, node |-> 1,
                      content |-> TextNode(<<SPACE, EACUTE>>)]

\* C31: the reader holds the lock exactly while iterateReader's loop runs:
\* it is released when the source has ended, when a read has failed and when
\* the loop was left after a cancel.  The cancel itself leaves the reader and
\* the byte source as they are; the chunk that arrives next is taken from
\* the source, nothing of it is written into doc.body, and the lock is
\* released in that step, whatever the source still holds.
C31_LockReleasedOnEveryPath ==
    /\ [](/\ readerState \in {"done", "failed", "closed"} => ~readerLocked
          /\ (prodState = "awaitChunk" /\ readerState = "reading") => readerLocked
          /\ readerState = "closed" => (canceled /\ lateWrites = 0))
    /\ [][/\ canceled' # canceled
               => UNCHANGED <<byteSource, readerState, readerLocked, bodyNodes>>
          /\ (canceled /\ byteSource' # byteSource)
               => (bodyNodes' = bodyNodes /\ readerLocked /\ ~readerLocked'
                   /\ readerState' = "closed")]_vars

\* C31 witness: the consumer cancelled a two-node response inside its
\* second node, the next chunk arrived and was dropped: the lock is released,
\* the second node of doc.body is as the cancel found it, and the source
\* still holds bytes nobody will read.
C31_Witness ==
    /\ Len(sourceNodes) = 2
    /\ canceled
    /\ readerState = "closed"
    /\ ~readerLocked
    /\ byteSource # <<>>
    /\ Len(bodyNodes) = 2
    /\ bodyNodes[2] # sourceNodes[2]

DecodeInit ==
    /\ PageIdle
    /\ AdapterIdle
    /\ StreamIdle /\ FilterIdle
    /\ FragmentIdle /\ LoaderIdle
    /\ bytesAll \in SeqsUpTo(ByteSet, MaxBytes)
    /\ byteSource = bytesAll
    /\ readerState = "reading"
    /\ readerLocked = TRUE
    /\ decoder = DecoderReset
    /\ textChunks = <<>>

DecodeNext == (\E k \in 1..MaxBytes : DRead(k)) \/ DEnd

SpecDecode == DecodeInit /\ [][DecodeNext]_vars

\* C4: once the byte source has ended, the concatenation of the yielded text
\* chunks is the decoding of the concatenation of all input bytes.
C4_ConcatIsWholeDecode ==
    readerState = "done" => Flatten(textChunks) = decodeWhole(bytesAll)

-----------------------------------------------------------------------------
(***************************************************************************)
(* Fragments under cloneContent()                                          *)
(***************************************************************************)

Modes == {"open", "closed"}

LeafKinds == {TextT, ScriptT("module", "a")}

RECURSIVE Content(_)
\* The nodes of at most d levels of elements: a leaf, a div around a node or
\* a declarative shadow DOM template around a node.
Content(d) ==
    IF d = 0 THEN LeafKinds
    ELSE LET inner == Content(d - 1)
         IN LeafKinds \cup {DivT(<<c>>) : c \in inner}
                      \cup {TemplateT(m, <<c>>) : m \in Modes, c \in inner}

\* What a Fragment wraps: one node (streamDomFragment) or a DocumentFragment
\* of the top-level nodes (parseDomFragment).
CloneSources ==
    LET cs == Content(MaxDepth)
    IN cs \cup {FragmentT(<<c>>) : c \in cs}
          \cup {FragmentT(<<c1, c2>>) :
                   c1 \in Content(1), c2 \in Content(1) \ {TextT}}

CloneInit ==
    /\ PageIdle
    /\ AdapterIdle /\ DecoderIdle /\ StreamIdle /\ FilterIdle /\ LoaderIdle
    /\ \E t \in CloneSources : FragmentOf(t)

CloneNext ==
    \/ Clone
    \/ \E c \in 1..MaxClones : \E n \in 1..Len(heap) : EditText(c, n)
    \/ \E c \in 1..MaxClones : \E n \in 1..Len(heap) : Detach(c, n)

SpecClone == CloneInit /\ [][CloneNext]_vars

\* The clones cloneContent() returned.
Returned == {c \in 1..Len(clones) : clones[c].node # 0}

\* C6: after any sequence of cloneContent() calls and of mutations of the
\* returned clones, the tree under the wrapped node is as it was, every clone
\* is as its owner left it, and no node belongs to two clones or to a clone
\* and the wrapped tree.
C6_CloneIndependence ==
    /\ <<Tree(heap, wrapped)>> = sourceTree
    /\ \A c \in Returned :
          /\ <<Tree(heap, clones[c].node)>> = clones[c].tree
          /\ Reach(heap, clones[c].node) \cap Reach(heap, wrapped) = {}
          /\ \A d \in Returned :
                c # d => Reach(heap, clones[c].node) \cap Reach(heap, clones[d].node) = {}

\* C6 witness: two clones of a Fragment with a shadow DOM template were
\* returned and one of them was mutated: it differs from the other.
C6_Witness ==
    /\ Returned = {1, 2}
    /\ edits = 1
    /\ clones[1].tree # clones[2].tree
    /\ \E n \in Reach(heap, wrapped) : heap[n].tag = "template"

IsPlaceholder(n) == n.tag = "template" /\ n.shadowroot # ""

\* The source node id has a copy under the clone c that hosts a shadow tree
\* of the mode of the placeholder p, holding copies of the content of p.
Stamped(c, host, p) ==
    \E e \in Reach(heap, clones[c].node) :
       /\ heap[e].origin = host
       /\ heap[e].shadow # 0
       /\ heap[heap[e].shadow].shadowroot = heap[p].shadowroot
       /\ [i \in 1..Len(heap[heap[e].shadow].kids) |->
              heap[heap[heap[e].shadow].kids[i]].origin]
            = heap[heap[p].content].kids

\* C7: every cloneContent() call returns without an error, no shadow DOM
\* template is left anywhere in the clone, and the copy of the parent of every
\* such template of the source hosts a shadow tree of the declared mode with
\* the content of the template.
C7_ShadowTreesReconstructed ==
    edits = 0 =>
       \A c \in 1..Len(clones) :
          /\ clones[c].error = "none"
          /\ \A n \in Reach(heap, clones[c].node) : ~IsPlaceholder(heap[n])
          /\ \A p \in Reach(heap, wrapped) :
                IsPlaceholder(heap[p]) => Stamped(c, heap[p].parent, p)

\* The wrapped tree holds nothing the fixups look for: no shadow DOM template
\* and no script.
PlainSource ==
    \A n \in Reach(heap, wrapped) :
       ~IsPlaceholder(heap[n]) /\ heap[n].tag # "script"

\* The tree a plain deep duplicate of the wrapped node has.
PlainDuplicate ==
    LET d == cloneNode(heap, wrapped, TRUE) IN Tree(d.h, d.id)

\* C13: when the wrapped tree has no shadow DOM template and no script, every
\* cloneContent() call returns a tree that is structurally equal to a plain
\* deep duplicate of the wrapped tree.
C13_PlainCloneIsDeepDuplicate ==
    (edits = 0 /\ PlainSource) =>
       \A c \in 1..Len(clones) :
          /\ clones[c].error = "none"
          /\ clones[c].tree = <<PlainDuplicate>>

\* C13 witness: a Fragment of two top-level nodes without template or script
\* was cloned twice.
C13_Witness ==
    /\ edits = 0 /\ PlainSource
    /\ Returned = {1, 2}
    /\ Len(heap[wrapped].kids) = 2

\* C8: every script in a returned clone, the root and the scripts of shadow
\* trees included, is a fixed script: made by manualClone, in fixedScriptSet
\* and not inert.
C8_ScriptsReconstructed ==
    \A c \in Returned :
       \A n \in Reach(heap, clones[c].node) :
          heap[n].tag = "script" => (n \in fixedScriptSet /\ ~heap[n].inert)

-----------------------------------------------------------------------------
(***************************************************************************)
(* Fragments under preloadScripts()                                        *)
(***************************************************************************)

ScriptKinds == {ScriptT(t, s) : t \in {"module", ""}, s \in {"", "a", "b"}}

\* Fragments of up to MaxScripts top-level scripts, and a script inside a
\* div, as the wrapped node itself and inside a shadow DOM template.
PreloadSources ==
    {FragmentT(ss) : ss \in SeqsUpTo(ScriptKinds, MaxScripts)}
       \cup {FragmentT(<<DivT(<<s>>)>>) : s \in ScriptKinds}
       \cup {DivT(<<TemplateT("open", <<s>>)>>) : s \in ScriptKinds}
       \cup ScriptKinds \cup {TextT}

PreloadInit ==
    /\ PageIdle
    /\ AdapterIdle /\ DecoderIdle /\ StreamIdle /\ FilterIdle /\ LoaderIdle
    /\ \E t \in PreloadSources : FragmentOf(t)

PreloadNext ==
    \/ Preload
    \/ \E s \in {"a", "b"} : ModuleLoaded(s)
    \/ PreloadSettle

SpecPreload == PreloadInit /\ [][PreloadNext]_vars

\* A script that is not an external module script.
Offending(n) == n.tag = "script" /\ (n.type # "module" \/ n.src = "")

HasOffender == \E n \in Reach(heap, wrapped) : Offending(heap[n])

\* C9: when the Fragment holds an inline or non-module script, a
\* preloadScripts() call fails and nothing of the Fragment has been inserted
\* into the document or imported.
C9_PreloadAllOrNothing ==
    (preloadState # "none" /\ HasOffender) =>
       (preloadState = "threw" /\ headScripts = <<>> /\ imports = {})

AllExternalModules ==
    \A n \in Reach(heap, wrapped) :
       heap[n].tag = "script" => (heap[n].type = "module" /\ heap[n].src # "")

\* The modules the scripts of the Fragment name.
DeclaredSources ==
    {heap[n].src : n \in {m \in Reach(heap, wrapped) : heap[m].tag = "script"}}

\* C18: when every script of the Fragment is an external module script, the
\* promise of preloadScripts() is resolved only when every module the scripts
\* name has been loaded.
C18_ResolvesAfterAllLoaded ==
    (AllExternalModules /\ preloadState = "resolved") =>
       DeclaredSources \subseteq loadedModules

\* preloadScripts() called any number of times on the same Fragment.
PreloadAgainNext == PreloadNext \/ PreloadAgain

SpecPreloadAgain == PreloadInit /\ [][PreloadAgainNext]_vars

\* C32: whatever preloadScripts() calls were made and however they ended, the
\* tree under the wrapped node is the tree the Fragment was made of, no step
\* changes a node that exists (its attributes, parent or children), and the
\* scripts in document.head are nodes outside the wrapped tree.
C32_PreloadLeavesWrappedTree ==
    /\ [](/\ <<Tree(heap, wrapped)>> = sourceTree
          /\ \A i \in 1..Len(headScripts) :
                /\ headScripts[i] \notin Reach(heap, wrapped)
                /\ heap[headScripts[i]].origin \in Reach(heap, wrapped))
    /\ [][\A n \in 1..Len(heap) : heap'[n] = heap[n]]_vars

\* C32 witness: preloadScripts() was called twice on a Fragment of a module
\* script followed by a classic script and failed twice, each time after a
\* copy of the first script had gone into document.head; the Fragment still
\* holds its two scripts.
C32_Witness ==
    /\ preloadState = "threw"
    /\ Len(headScripts) = 2
    /\ heap[headScripts[1]].origin = heap[headScripts[2]].origin
    /\ Len(querySelectorAllScripts(heap, wrapped)) = 2
    /\ querySelectorAllScripts(heap, wrapped)[1] = heap[headScripts[1]].origin

-----------------------------------------------------------------------------
(***************************************************************************)
(* Fragments with scripts under cloneContent(), and clones wrapped again   *)
(***************************************************************************)

RecloneNext ==
    \/ Clone
    \/ \E c \in 1..MaxClones : Rewrap(c)

SpecReclone == PreloadInit /\ [][RecloneNext]_vars

\* The tree cloneContent() works on when it calls fixupScripts: the imported
\* copy of the wrapped node after fixupDeclarativeShadowDom.
BeforeFixupScripts ==
    LET clone == importNode(heap, wrapped)
        dsd == fixupDeclarativeShadowDom(clone.h, clone.id)
    IN Tree(dsd.h, clone.id)

RECURSIVE WithFreshScripts(_)
\* The tree t with every script among its descendants (children and theirs)
\* taken for a script element that no parser has marked.
WithFreshScripts(t) ==
    [t EXCEPT !.kids =
        [i \in 1..Len(t.kids) |->
            IF t.kids[i].tag = "script" THEN [t.kids[i] EXCEPT !.inert = FALSE]
            ELSE WithFreshScripts(t.kids[i])]]

\* The scripts among the descendants of the node root.
CloneScripts(h, root) ==
    {n \in 1..Len(h) : h[n].tag = "script" /\ n \in Reach(h, root) /\ n # root
                          /\ \E i \in 1..Len(querySelectorAllScripts(h, root)) :
                                querySelectorAllScripts(h, root)[i] = n}

\* C25: a cloneContent() call that returns gives the tree it had before
\* fixupScripts with nothing changed but the parser's mark on the scripts
\* that were replaced: every new script stands at the place of the script it
\* replaces, with the same type and src attributes and the same text.
C25_ReconstructionPreserves ==
    [][(Len(clones') > Len(clones) /\ clones'[Len(clones')].node # 0)
         => clones'[Len(clones')].tree = <<WithFreshScripts(BeforeFixupScripts)>>]_vars

\* C25 witness: a Fragment of a classic external script, an inline module
\* script and an external module script was cloned: the clone holds three
\* new scripts with these attributes and texts in this order.
C25_Witness ==
    /\ sourceTree = <<Tree(parseNode(<<>>, FragmentT(<<ScriptT("", "a"), ScriptT("module", ""),
                                                        ScriptT("module", "b")>>), 0), 1)>>
    /\ Len(clones) = 1 /\ clones[1].node # 0
    /\ LET ks == heap[clones[1].node].kids
       IN /\ Len(ks) = 3
          /\ \A i \in 1..3 : ks[i] \in fixedScriptSet /\ ~heap[ks[i]].inert
          /\ <<heap[ks[1]].type, heap[ks[1]].src, heap[ks[1]].text>> = <<"", "a", "">>
          /\ <<heap[ks[2]].type, heap[ks[2]].src, heap[ks[2]].text>> = <<"module", "", "code">>
          /\ <<heap[ks[3]].type, heap[ks[3]].src, heap[ks[3]].text>> = <<"module", "b", "">>

-----------------------------------------------------------------------------
(***************************************************************************)
(* dropWhitespaceNodes in isolation                                        *)
(***************************************************************************)

\* The nodes an iterator can yield: an element, a comment of one space, text
\* of whitespace only (one space; newline and tab; none at all) and text of
\* whitespace around a character.
FilterKinds ==
    {ElemNode(<<>>), CommentNode(<<SPACE>>), TextNode(<<SPACE>>),
     TextNode(<<NEWLINE, TAB>>), TextNode(<<>>),
     TextNode(<<SPACE, EACUTE, NEWLINE>>)}

FilterInit ==
    /\ PageIdle
    /\ AdapterIdle /\ DecoderIdle /\ StreamIdle /\ FragmentIdle /\ LoaderIdle
    /\ filterInput \in SeqsUpTo(FilterKinds, MaxFilterLen)
    /\ filterPos = 0
    /\ filterOutput = <<>>
    /\ filterState = "running"

FilterNext == FilterStep \/ FilterEnd \/ FilterReturn

SpecFilter == FilterInit /\ [][FilterNext]_vars

\* A text node that holds no character other than whitespace.
BlankText(n) == n.kind = "text" /\ \A i \in 1..Len(n.data) : n.data[i] \in WhiteSpace

\* C12: at every moment the nodes dropWhitespaceNodes has yielded are the
\* nodes it has taken, in their order and as they were, without exactly the
\* text nodes that hold nothing but whitespace; at the end all nodes of the
\* input have been taken.
C12_FilterDropsBlankTextOnly ==
    /\ filterOutput = SelectSeq(Take(filterInput, filterPos), LAMBDA n : ~BlankText(n))
    /\ filterState = "done" => filterPos = Len(filterInput)

\* C12 witness: an input of a comment of one space, a whitespace text node
\* and a text node of whitespace around a character was filtered to its end:
\* the comment and the mixed text node came through unchanged.
C12_Witness ==
    /\ filterState = "done"
    /\ filterInput = <<CommentNode(<<SPACE>>), TextNode(<<NEWLINE, TAB>>),
                       TextNode(<<SPACE, EACUTE, NEWLINE>>)>>
    /\ filterOutput = <<CommentNode(<<SPACE>>), TextNode(<<SPACE, EACUTE, NEWLINE>>)>>

-----------------------------------------------------------------------------
(***************************************************************************)
(* The request paths                                                       *)
(***************************************************************************)

HttpStatuses == {200, 404}

\* Content-Type: absent, empty, text/html, text/html with a parameter, and a
\* type DOMParser does not take.
ContentTypes ==
    {[present |-> FALSE, value |-> <<>>]}
       \cup {[present |-> TRUE, value |-> v] :
                v \in {<<>>, <<"text/html">>, <<"text/html", ";", "charset=utf-8">>,
                       <<"text/plain">>}}

\* The top-level nodes of a response body after its first.
TopKinds ==
    {SpaceT, DivT(<<TextT>>), DivT(<<ScriptT("module", "a")>>),
     DivT(<<TemplateT("open", <<TextT>>)>>), ScriptT("module", "a"),
     TemplateT("open", <<TextT>>)}

\* Response bodies: an element, then up to MaxTopLevel nodes, no two text
\* nodes in a row.  The first node is an element, which every parser of the
\* model puts into the body.
LoadBodies ==
    {FragmentT(<<f>> \o ts) :
        f \in {DivT(<<TextT>>), DivT(<<TemplateT("closed", <<TextT>>)>>)},
        ts \in {t \in SeqsUpTo(TopKinds, MaxTopLevel) :
                   \A i \in 1..(Len(t) - 1) : ~(t[i] = SpaceT /\ t[i + 1] = SpaceT)}}

LoadInit ==
    /\ PageIdle
    /\ AdapterIdle /\ DecoderIdle /\ StreamIdle /\ FilterIdle /\ FragmentIdle
    /\ request \in Paths
    /\ response \in [status : HttpStatuses, contentType : ContentTypes, body : LoadBodies]
    /\ loadState = "fetching"
    /\ loadError = "none"
    /\ parserCalls = 0
    /\ inserted = <<>>

LoadNext ==
    \/ Fetched
    \/ ReadText
    \/ ParseResponse
    \/ InsertClone
    \/ StartStream
    \/ StreamYield
    \/ StreamDone

SpecLoad == LoadInit /\ [][LoadNext]_vars

\* The response carries no content type: no header, or an empty one.
NoContentType == ~response.contentType.present \/ Len(response.contentType.value) = 0

\* C11: on a path through parseDomFragment a response without content type
\* ends in a rejection with MissingContentType (unless the caller's status
\* test rejected first); DOMParser is never called, no Fragment is made and
\* nothing is inserted.
C11_MissingContentTypeRejects ==
    (request # "streamTweets" /\ NoContentType) =>
       /\ parserCalls = 0
       /\ wrapped = 0
       /\ inserted = <<>>
       /\ loadState \in {"fetching", "fetched", "readText", "rejected"}
       /\ loadState = "rejected" =>
             loadError = IF checksStatus(request) /\ response.status >= 400
                         THEN "HttpStatus" ELSE "MissingContentType"

\* C11 witness: the embed path got a 200 response without a Content-Type
\* header and was rejected with MissingContentType.
C11_Witness ==
    /\ request = "embed"
    /\ response.status = 200
    /\ ~response.contentType.present
    /\ loadState = "rejected"
    /\ loadError = "MissingContentType"

\* The nodes of a sequence of trees that dropWhitespaceNodes would let through.
DropWhitespace(ts) == SelectSeq(ts, LAMBDA t : ~isWhitespaceText(t))

\* What the whole-response path gives for a body: the error of cloneContent,
\* or the top-level nodes of the clone of the DocumentFragment.
wholeOutcome(body) ==
    LET r == Call3(cloneContent, parseNode(<<>>, body, 0), {}, 1)
    IN IF r.error # "none" THEN [error |-> r.error, nodes |-> <<>>]
       ELSE [error |-> "none", nodes |-> DropWhitespace(Tree(r.h, r.node).kids)]

RECURSIVE streamClones(_, _)
\* The loop over the streamed Fragments: st = [h, fixed, error, nodes].
streamClones(st, ks) ==
    IF ks = <<>> \/ st.error # "none" THEN st
    ELSE LET r == Call3(cloneContent, st.h, st.fixed, Head(ks))
         IN Call2(streamClones,
                  [h |-> r.h, fixed |-> r.fixed, error |-> r.error,
                   nodes |-> IF r.error # "none" THEN st.nodes
                             ELSE Append(st.nodes, Tree(r.h, r.node))],
                  Tail(ks))

\* What the streaming path gives for a body: the error of a cloneContent
\* call, and the clones of the streamed Fragments up to it.
streamOutcome(body) ==
    LET h == parseNode(<<>>, body, 0)
        st == Call2(streamClones, [h |-> h, fixed |-> {}, error |-> "none", nodes |-> <<>>],
                    StreamedNodes(h))
    IN [error |-> st.error, nodes |-> st.nodes]

\* What the request of this behaviour gave.
Outcome ==
    [error |-> loadError,
     nodes |-> IF request = "streamTweets" THEN inserted
               ELSE IF inserted = <<>> THEN <<>>
               ELSE DropWhitespace(inserted[1].kids)]

\* The caller has cloned every Fragment of the response, or a clone failed.
Cloned == heap # <<>> /\ loadState \in {"done", "rejected"}

\* C16: when a request has run to its end over a response, what its path
\* gave (the top-level nodes of the clone, whitespace-only text nodes
\* dropped, or the error) is what the other path gives for the same body.
C16_PathsAgree ==
    Cloned =>
       Outcome = IF request = "streamTweets" THEN wholeOutcome(response.body)
                 ELSE streamOutcome(response.body)

\* C17: a response with a failure status is parsed on no path: the caller's
\* promise is rejected with the status error before res.text() is read,
\* DOMParser is not called, no node is made and nothing is inserted.
C17_FailureStatusSurfaced ==
    response.status >= 400 =>
       /\ loadState \in {"fetching", "rejected"}
       /\ loadState = "rejected" => loadError = "HttpStatus"
       /\ parserCalls = 0
       /\ heap = <<>>
       /\ inserted = <<>>

-----------------------------------------------------------------------------
(***************************************************************************)
(* One em-bed element under attach, detach and attribute changes           *)
(***************************************************************************)

EmbedSources == {"", "a", "b"}

EmbedInit ==
    /\ AdapterIdle /\ DecoderIdle /\ StreamIdle /\ FilterIdle /\ FragmentIdle
    /\ LoaderIdle /\ RouterIdle
    /\ embedSrc \in EmbedSources
    /\ embedConnected = FALSE
    /\ loaded = FALSE
    /\ embedRequests = <<>>
    /\ embedTask = "none"
    /\ embedChildren = 0
    /\ embedThrows = 0

EmbedNext ==
    \/ EmbedAttach
    \/ EmbedDetach
    \/ \E s \in EmbedSources : EmbedSetSrc(s)
    \/ \E ok \in BOOLEAN : EmbedSettle(ok)

SpecEmbed == EmbedInit /\ [][EmbedNext]_vars

\* The element is inserted into the document in this step.
Attaches == ~embedConnected /\ embedConnected'

\* C33 as stated: fetch is called at most once and a clone is appended at
\* most once, and every attach of the element while it has no src attribute
\* throws and leaves loaded unset.
C33_LoadsOnceThrowsWithoutSrc ==
    /\ [](Len(embedRequests) <= 1 /\ embedChildren <= 1)
    /\ [][(Attaches /\ embedSrc = "")
            => (embedThrows' = embedThrows + 1 /\ ~loaded')]_vars

\* C33 amended: fetch is called at most once, when the element is first
\* attached with a src attribute, and a clone is appended at most once; an
\* attach of an element that is not loaded and has no src attribute throws,
\* requests nothing and leaves loaded unset; an attach of a loaded element
\* does nothing, with or without src.
C33_LoadsOnceThrowsUnlessLoaded ==
    /\ [](/\ Len(embedRequests) <= 1 /\ embedChildren <= 1
          /\ loaded <=> embedRequests # <<>>
          /\ embedChildren <= Len(embedRequests))
    /\ [][/\ (Attaches /\ embedSrc = "" /\ ~loaded)
               => /\ embedThrows' = embedThrows + 1
                  /\ ~loaded'
                  /\ UNCHANGED <<embedRequests, embedTask, embedChildren>>
          /\ (Attaches /\ loaded)
               => UNCHANGED <<loaded, embedRequests, embedTask, embedChildren,
                              embedThrows>>
          /\ (Attaches /\ embedSrc # "" /\ ~loaded)
               => (loaded' /\ embedRequests' = <<embedSrc>>)]_vars

\* C33 witness: an attach without src threw, src was set, the element was
\* attached again and loaded, its content was appended, and it has since
\* been detached and attached again: one request, one appended clone.
C33_Witness ==
    /\ embedThrows = 1
    /\ loaded
    /\ embedRequests = <<"a">>
    /\ embedTask = "appended"
    /\ embedChildren = 1
    /\ embedConnected
    /\ embedSrc = "b"

-----------------------------------------------------------------------------
(***************************************************************************)
(* The Router under navigate calls                                         *)
(***************************************************************************)

\* The routes of the pages: three paths without query or hash.
PageRoutes == {createRoute(p, <<>>, "") : p \in {"/", "/a", "/b"}}

\* The page was loaded at a route, whose content the server rendered into
\* the content root.
RouterAt(r) ==
    /\ AdapterIdle /\ DecoderIdle /\ StreamIdle /\ FilterIdle /\ FragmentIdle
    /\ LoaderIdle /\ EmbedIdle
    /\ currentRoute = r
    /\ contentRoot = RouteContent(r)
    /\ fragmentCache = <<>>
    /\ navs = <<>>

RouterInit == \E r \in PageRoutes : RouterAt(r)

RouterNext ==
    \/ \E r \in PageRoutes : Navigate(r)
    \/ \E i \in 1..MaxNavs : NavSettle(i)

SpecRouter == RouterInit /\ [][RouterNext]_vars

\* Every navigate call has come to its end.
AllSettled == \A i \in 1..Len(navs) : navs[i].state # "fetching"

\* C34: once every navigate call has come to its end, the content root holds
\* the fragment of the current route, and every fragment in the cache that
\* has not been moved into the content root holds the content of the route
\* it is stored under.
C34_ContentIsCurrentRoute ==
    (AllSettled /\ \A i \in 1..Len(navs) : navs[i].state # "threw") =>
       /\ contentRoot = RouteContent(currentRoute)
       /\ \A k \in DOMAIN fragmentCache :
             k # toString(currentRoute) => fragmentCache[k] = <<[of |-> k]>>

\* The routes routeEquals is applied to: two paths, two hashes and up to
\* MaxParams query parameters.
QueryParams == {<<"q", "1">>, <<"q", "2">>}
AllRoutes ==
    {createRoute(p, ps, h) :
        p \in {"/", "/a"}, ps \in SeqsUpTo(QueryParams, MaxParams), h \in {"", "#h"}}

RouteEqualsInit == \E r \in AllRoutes : RouterAt(r)

\* One navigate call, from any route to any route.
NavigateOnce(r) == navs = <<>> /\ Navigate(r)

RouteEqualsNext ==
    \/ \E r \in AllRoutes : NavigateOnce(r)
    \/ NavSettle(1)

SpecRouteEquals == RouteEqualsInit /\ [][RouteEqualsNext]_vars

\* C35: routeEquals never throws: every navigate call returned at line 46
\* exactly when path, hash and the list of query parameters of the two routes
\* are equal, and went on otherwise.
C35_RouteEqualsTotal ==
    \A i \in 1..Len(navs) :
       /\ navs[i].state # "threw"
       /\ navs[i].state = "same" <=> navs[i].prev = navs[i].route

=============================================================================
